---- MODULE Spec2Model ----
(***************************************************************************)
(* The narration pipeline of story-lord (src/src/agents/narrator.py):      *)
(* generate_narration walks the beats of a StoryArchitecture in document   *)
(* order; for every beat it calls the generation chain once and the        *)
(* evaluation chain twice, then appends the BeatNarration to the list      *)
(* all_narrations, and finally returns a NarratedStory.                    *)
(*                                                                         *)
(* Python values are modelled as they are: strings are strings (the        *)
(* formatters concatenate and join them), lists are sequences, and         *)
(* BeatNarration objects live in a heap (objects) and are held by          *)
(* reference, as all_narrations and the local variable narration hold them *)
(* in the source.  Indices event_idx and beat_idx are 0-based as in the    *)
(* source; a TLA+ sequence is indexed from 1, hence the "+ 1" on access.   *)
(*                                                                         *)
(* The two chains are the external text-generation capability: a call      *)
(* either returns any value of its result type or raises.                  *)
(***************************************************************************)
EXTENDS Integers, Naturals, Sequences, FiniteSets, TLC

VARIABLES
    input_data,      \* NarratorInput: story_architecture, characters, tone
    objects,         \* heap of BeatNarration objects, by object id 1..Len
    all_narrations,  \* list[BeatNarration]: the ids of the committed units
    narration,       \* the local variable narration: an object id, 0 = unbound
    event_idx,       \* outer loop index (0-based)
    beat_idx,        \* inner loop index (0-based)
    iteration,       \* the loop variable of range(2, 4)
    pc,              \* position in generate_narration
    narrated_story,  \* what the caller of generate_narration receives
    calls,           \* history: every external call and commit, by position
    beat_calls,      \* history: the calls of the beat in hand, with arguments
    finals,          \* history: revised_narrative of each beat's last round
    \* src/src/agents/first.py
    _agent,              \* the module global: 0 = None, n > 0 = the n-th agent
    sys_modules,         \* the modules imported so far, in import order
    create_agent_calls,  \* history: how often create_agent was invoked
    get_agent_calls,     \* history: every get_agent call and how it ended
    \* src/src/graph and src/src/story_lord.py
    agents,          \* what the architect, the narrator and the editor do
    state,           \* StoryGenerationState of the graph run
    node,            \* the node the graph runs next
    node_log,        \* history: the nodes executed, in order
    graph_files,     \* history: the files the nodes wrote, in order
    graph_calls,     \* history: the agent calls the nodes made, in order
    script_pc,       \* position in run_story_generation
    script_locals,   \* the locals of run_story_generation
    script_files,    \* history: the files run_story_generation wrote
    script_calls,    \* history: the agent calls run_story_generation made
    \* src/src/agents/character/registry.py
    _agent_types,    \* CharacterRegistry._agent_types: the registered type names
    _characters,     \* CharacterRegistry._characters: character id -> agent
    agents_created,  \* history: how many agents create_instance has returned
    registry_call,   \* history: the last call on the registry and how it ended
    \* src/src/models.py, CharacterMemory
    relationships,   \* CharacterMemory.relationships: name -> RelationshipState
    memory_call,     \* history: the last update_relationship call
    \* src/src/agents/architect.py and architect/architect_default.py
    architect_input,        \* ArchitectInput, and which of the two functions runs
    architect_plot_events,  \* the local list plot_events
    architect_i,            \* the loop variable i of range(num_plot_events)
    architect_pc,           \* position in the function
    architect_calls,        \* history: the arguments of every chain.invoke
    architect_result        \* what the caller receives

narrator_vars ==
    <<input_data, objects, all_narrations, narration, event_idx, beat_idx,
      iteration, pc, narrated_story, calls, beat_calls, finals>>

first_vars == <<_agent, sys_modules, create_agent_calls, get_agent_calls>>

workflow_vars ==
    <<agents, state, node, node_log, graph_files, graph_calls,
      script_pc, script_locals, script_files, script_calls>>

registry_vars == <<_agent_types, _characters, agents_created, registry_call>>

memory_vars == <<relationships, memory_call>>

architect_vars ==
    <<architect_input, architect_plot_events, architect_i, architect_pc,
      architect_calls, architect_result>>

vars == <<narrator_vars, first_vars, workflow_vars, registry_vars, memory_vars,
          architect_vars>>

(***************************************************************************)
(* The parts of the program are modelled side by side, each over its own   *)
(* variables.  A specification runs one part; the variables of the other   *)
(* parts rest at the values below.                                         *)
(***************************************************************************)
outside_narrator ==
    <<first_vars, workflow_vars, registry_vars, memory_vars, architect_vars>>

outside_first ==
    <<narrator_vars, workflow_vars, registry_vars, memory_vars, architect_vars>>

outside_workflow ==
    <<narrator_vars, first_vars, registry_vars, memory_vars, architect_vars>>

outside_registry ==
    <<narrator_vars, first_vars, workflow_vars, memory_vars, architect_vars>>

outside_memory ==
    <<narrator_vars, first_vars, workflow_vars, registry_vars, architect_vars>>

outside_architect ==
    <<narrator_vars, first_vars, workflow_vars, registry_vars, memory_vars>>

FirstIdle ==
    /\ _agent = 0
    /\ sys_modules = <<>>
    /\ create_agent_calls = 0
    /\ get_agent_calls = <<>>

NarratorIdle ==
    /\ input_data = [story_architecture |-> [plot_events |-> <<>>],
                     characters |-> <<>>, tone |-> ""]
    /\ objects = <<>>
    /\ all_narrations = <<>>
    /\ narration = 0
    /\ event_idx = 0
    /\ beat_idx = 0
    /\ iteration = 0
    /\ pc = "idle"
    /\ narrated_story = [returned |-> FALSE, narrations |-> <<>>]
    /\ calls = <<>>
    /\ beat_calls = <<>>
    /\ finals = <<>>

WorkflowIdle ==
    /\ agents = <<>>
    /\ state = <<>>
    /\ node = "idle"
    /\ node_log = <<>>
    /\ graph_files = <<>>
    /\ graph_calls = <<>>
    /\ script_pc = "idle"
    /\ script_locals = <<>>
    /\ script_files = <<>>
    /\ script_calls = <<>>

RegistryIdle ==
    /\ _agent_types = {}
    /\ _characters = <<>>
    /\ agents_created = 0
    /\ registry_call = <<>>

MemoryIdle ==
    /\ relationships = <<>>
    /\ memory_call = <<>>

ArchitectIdle ==
    /\ architect_input = <<>>
    /\ architect_plot_events = <<>>
    /\ architect_i = 0
    /\ architect_pc = "idle"
    /\ architect_calls = <<>>
    /\ architect_result = <<>>

OutsideNarratorIdle ==
    FirstIdle /\ WorkflowIdle /\ RegistryIdle /\ MemoryIdle /\ ArchitectIdle

OutsideFirstIdle ==
    NarratorIdle /\ WorkflowIdle /\ RegistryIdle /\ MemoryIdle /\ ArchitectIdle

OutsideWorkflowIdle ==
    NarratorIdle /\ FirstIdle /\ RegistryIdle /\ MemoryIdle /\ ArchitectIdle

OutsideRegistryIdle ==
    NarratorIdle /\ FirstIdle /\ WorkflowIdle /\ MemoryIdle /\ ArchitectIdle

OutsideMemoryIdle ==
    NarratorIdle /\ FirstIdle /\ WorkflowIdle /\ RegistryIdle /\ ArchitectIdle

OutsideArchitectIdle ==
    NarratorIdle /\ FirstIdle /\ WorkflowIdle /\ RegistryIdle /\ MemoryIdle

(***************************************************************************)
(* Bounds of the model.                                                    *)
(***************************************************************************)
MaxEvents == 2

MaxBeats == 2

MaxTotalBeats == 3

\* The most names a beat lists in the runs of SpecInvolved.
MaxCast == 2

\* The most get_agent calls of a run of SpecFirst.
MaxGetAgentCalls == 5

\* The most narrations of the story the narrator agent returns to the workflow.
MaxNarrations == 2

\* The most node executions of a run of SpecNodes.
MaxNodeRuns == 4

\* The most agents the registered agent types create in a run of SpecRegistry.
MaxAgentsCreated == 3

\* The most notes update_relationship appends to one relationship.
MaxNotes == 1

\* The largest num_plot_events the architect is asked for.
MaxPlotEvents == 3

(***************************************************************************)
(* Text helpers: str(int) and "\n".join(lines).                            *)
(***************************************************************************)
Digit == <<"0", "1", "2", "3", "4", "5", "6", "7", "8", "9">>

RECURSIVE NumStr(_)
NumStr(n) ==
    IF n < 10 THEN Digit[n + 1] ELSE NumStr(n \div 10) \o Digit[(n % 10) + 1]

RECURSIVE Join(_, _)
Join(sep, lines) ==
    IF Len(lines) = 0 THEN ""
    ELSE IF Len(lines) = 1 THEN lines[1]
    ELSE lines[1] \o sep \o Join(sep, Tail(lines))

RECURSIVE Flatten(_)
Flatten(seqs) ==
    IF Len(seqs) = 0 THEN <<>> ELSE seqs[1] \o Flatten(Tail(seqs))

Range(seq) == {seq[i] : i \in 1..Len(seq)}

(***************************************************************************)
(* The inputs of a run.  The roster is the three profiles of the sample    *)
(* run; an architecture is given by its shape (the number of beats of each *)
(* plot event), the texts of its events and beats being told apart by      *)
(* their position.  Beats name roster members, nobody, or a name the       *)
(* roster does not hold.                                                   *)
(***************************************************************************)
Roster ==
    << [name |-> "Elijah", description |-> "dentist", role |-> "protagonist",
        motivations |-> "curiosity", relationships |-> "friend of Jasper",
        backstory |-> "loses track"],
       [name |-> "Jasper", description |-> "lawyer", role |-> "protagonist",
        motivations |-> "winning", relationships |-> "friend of Elijah",
        backstory |-> "jumped two grades"],
       [name |-> "Riley", description |-> "manipulator", role |-> "antagonist",
        motivations |-> "toying", relationships |-> "None",
        backstory |-> "made millions"] >>

Tone == "Tense thriller"

BeatTypes ==
    <<"conversation", "action", "occurrence", "internal_dialogue",
      "revelation", "decision">>

Casts ==
    << <<"Jasper", "Elijah">>, <<"Riley">>, <<>>, <<"Riley", "Stranger">> >>

MakeBeat(e, b) ==
    [description |-> "beat " \o NumStr(e) \o "." \o NumStr(b),
     beat_type |-> BeatTypes[((e + b) % Len(BeatTypes)) + 1],
     characters_involved |-> Casts[((e + b) % Len(Casts)) + 1]]

MakeEvent(e, nbeats) ==
    [title |-> "title " \o NumStr(e),
     summary |-> "summary " \o NumStr(e),
     beats |-> [b \in 1..nbeats |-> MakeBeat(e, b)]]

RECURSIVE Sum(_)
Sum(seq) == IF Len(seq) = 0 THEN 0 ELSE seq[1] + Sum(Tail(seq))

Shapes ==
    {shape \in UNION {[1..n -> 0..MaxBeats] : n \in 0..MaxEvents} :
        Sum(shape) <= MaxTotalBeats}

MakeArchitecture(shape) ==
    [plot_events |-> [e \in 1..Len(shape) |-> MakeEvent(e, shape[e])]]

NarratorInputs ==
    {[story_architecture |-> MakeArchitecture(shape),
      characters |-> Roster,
      tone |-> Tone] : shape \in Shapes}

(***************************************************************************)
(* What the external chains can return.  The generation chain returns a    *)
(* BeatNarration, whose beat_reference is whatever the capability wrote;   *)
(* the evaluation chain returns a ConflictEvaluation.  Nothing ties        *)
(* revised_narrative to conflicts_found or to the text that was sent.      *)
(***************************************************************************)
Texts == {"prose A", "prose B"}

GenRefs == {"", "Event 1, Beat 1"}

GenerationResults ==
    [narrative_text : Texts, beat_reference : GenRefs]

EvaluationResults ==
    [conflicts_found : {<<>>, <<"timeline conflict">>},
     revised_narrative : Texts]

(***************************************************************************)
(* The context formatters.                                                 *)
(***************************************************************************)
_format_current_plot_event(event) == <<event.title, event.summary>>

_format_story_beat(beat) == <<beat.beat_type, beat.description>>

CharacterLines(char) ==
    << "### " \o char.name \o " (" \o char.role \o ")",
       "**Description:** " \o char.description,
       "**Motivations:** " \o char.motivations,
       "**Relationships:** " \o char.relationships,
       "" >>

\* Variant: the profiles are looked up name by name, in the order of the beat.
_format_involved_characters_beat_order(beat, characters) ==
    LET Named(n) == LET Is(c) == c.name = n IN SelectSeq(characters, Is)
        involved_chars ==
            Flatten([i \in 1..Len(beat.characters_involved) |->
                        Named(beat.characters_involved[i])])
    IN  IF Len(involved_chars) = 0
        THEN "No specific characters identified for this beat."
        ELSE Join("\n", Flatten([i \in 1..Len(involved_chars) |->
                                    CharacterLines(involved_chars[i])]))

_format_involved_characters(beat, characters) ==
    LET involved_names == Range(beat.characters_involved)
        Involved(c) == c.name \in involved_names
        involved_chars == SelectSeq(characters, Involved)
    IN  IF Len(involved_chars) = 0
        THEN "No specific characters identified for this beat."
        ELSE Join("\n", Flatten([i \in 1..Len(involved_chars) |->
                                    CharacterLines(involved_chars[i])]))

BeatLine(beat) ==
    LET chars == IF Len(beat.characters_involved) > 0
                 THEN Join(", ", beat.characters_involved)
                 ELSE "None"
    IN  "- [" \o beat.beat_type \o "] " \o beat.description
            \o " (Characters: " \o chars \o ")"

BeatLines(beats) == [i \in 1..Len(beats) |-> BeatLine(beats[i])]

PriorEventLines(i, event) ==
    << "### Plot Event " \o NumStr(i) \o ": " \o event.title,
       event.summary \o "\n" >>
    \o BeatLines(event.beats) \o << "" >>

\* Variant: the slice of the current event runs up to the current beat included.
CurrentEventLines_through_current(event_num, current_event, current_beat_idx) ==
    << "### Plot Event " \o NumStr(event_num) \o " (Current): "
            \o current_event.title,
       current_event.summary \o "\n" >>
    \o BeatLines(SubSeq(current_event.beats, 1, current_beat_idx + 1))
    \o << "" >>

CurrentEventLines(event_num, current_event, current_beat_idx) ==
    << "### Plot Event " \o NumStr(event_num) \o " (Current): "
            \o current_event.title,
       current_event.summary \o "\n" >>
    \o BeatLines(SubSeq(current_event.beats, 1, current_beat_idx))
    \o << "" >>

\* Variant: the sentinel is returned when no earlier event holds a beat.
_format_prior_context_no_prior_beats(prior_events, current_event, current_beat_idx) ==
    IF /\ \A i \in 1..Len(prior_events) : Len(prior_events[i].beats) = 0
       /\ current_beat_idx = 0
    THEN "This is the beginning of the story. No prior context."
    ELSE LET lines ==
                 Flatten([i \in 1..Len(prior_events) |->
                             PriorEventLines(i, prior_events[i])])
                 \o (IF current_beat_idx > 0
                     THEN CurrentEventLines(Len(prior_events) + 1,
                                            current_event, current_beat_idx)
                     ELSE <<>>)
         IN  IF Len(lines) > 0 THEN Join("\n", lines)
             ELSE "No prior context."

_format_prior_context(prior_events, current_event, current_beat_idx) ==
    IF Len(prior_events) = 0 /\ current_beat_idx = 0
    THEN "This is the beginning of the story. No prior context."
    ELSE LET lines ==
                 Flatten([i \in 1..Len(prior_events) |->
                             PriorEventLines(i, prior_events[i])])
                 \o (IF current_beat_idx > 0
                     THEN CurrentEventLines(Len(prior_events) + 1,
                                            current_event, current_beat_idx)
                     ELSE <<>>)
         IN  IF Len(lines) > 0 THEN Join("\n", lines)
             ELSE "No prior context."

NarrationLines(n) ==
    << "--- " \o n.beat_reference \o " ---", n.narrative_text, "" >>

\* Variant: the empty list is rendered like any other list.
_format_prior_narration_no_sentinel(narrations) ==
    Join("\n", Flatten([i \in 1..Len(narrations) |->
                           NarrationLines(narrations[i])]))

_format_prior_narration(narrations) ==
    IF Len(narrations) = 0
    THEN "No narrative has been written yet. This is the first beat."
    ELSE Join("\n", Flatten([i \in 1..Len(narrations) |->
                                NarrationLines(narrations[i])]))

(***************************************************************************)
(* generate_narration: names of the source's locals.                       *)
(***************************************************************************)
plot_events == input_data.story_architecture.plot_events

prior_events == SubSeq(plot_events, 1, event_idx)

plot_event == plot_events[event_idx + 1]

beat == plot_event.beats[beat_idx + 1]

\* The BeatNarration objects a list of references holds, as values.
Deref(ids) == [i \in 1..Len(ids) |-> objects[ids[i]]]

\* Variant: the event index is written in both places of the label.
BeatReference_event_twice(e, b) ==
    "Event " \o NumStr(e + 1) \o ", Beat " \o NumStr(e + 1)

\* Variant: the label is built from the 0-based loop indices.
BeatReference_zero_based(e, b) ==
    "Event " \o NumStr(e) \o ", Beat " \o NumStr(b)

\* f"Event {event_idx + 1}, Beat {beat_idx + 1}"
BeatReference(e, b) ==
    "Event " \o NumStr(e + 1) \o ", Beat " \o NumStr(b + 1)

\* Variant: only the most recent unit is rendered for the generation call.
GenerationNarrations_last_only ==
    IF Len(all_narrations) > 1
    THEN Deref(<<all_narrations[Len(all_narrations)]>>)
    ELSE Deref(all_narrations)

\* The list the generation context renders as "prior_narration".
GenerationNarrations == Deref(all_narrations)

\* Variant: the unit under revision is rendered with the corpus.
EvaluationNarrations_with_unit == Deref(Append(all_narrations, narration))

\* The list the evaluation context renders as "full_corpus".
EvaluationNarrations == Deref(all_narrations)

generation_context ==
    [event_title |-> _format_current_plot_event(plot_event)[1],
     event_summary |-> _format_current_plot_event(plot_event)[2],
     beat_type |-> _format_story_beat(beat)[1],
     beat_description |-> _format_story_beat(beat)[2],
     involved_characters |->
         _format_involved_characters(beat, input_data.characters),
     tone |-> input_data.tone,
     prior_context |-> _format_prior_context(prior_events, plot_event, beat_idx),
     prior_narration |-> _format_prior_narration(GenerationNarrations)]

\* Variant: every round is sent the text the generation call returned.
current_narrative_draft == beat_calls[1].result.narrative_text

\* "current_narrative": narration.narrative_text, as it is when the round starts.
current_narrative == objects[narration].narrative_text

eval_context ==
    [current_narrative |-> current_narrative,
     beat_type |-> _format_story_beat(beat)[1],
     beat_description |-> _format_story_beat(beat)[2],
     full_corpus |-> _format_prior_narration(EvaluationNarrations),
     prior_context |-> _format_prior_context(prior_events, plot_event, beat_idx)]

\* range(2, 4): the iterations of the evaluate-and-revise loop.
RangeStart == 2

RangeStop == 4

\* Variant: the loop stops as soon as an evaluation reports no conflict.
MoreRounds_until_clean(it, eval_result) ==
    it + 1 < RangeStop /\ Len(eval_result.conflicts_found) > 0

\* Whether "for iteration in range(2, 4)" has an iteration after this one; the
\* result of the evaluation plays no part in it.
MoreRounds(it, eval_result) == it + 1 < RangeStop

\* Variant: a round revises the unit committed last instead of the new one.
RevisedObject_last_committed ==
    IF Len(all_narrations) > 0 THEN all_narrations[Len(all_narrations)]
    ELSE narration

\* The object whose narrative_text an evaluation round assigns: narration.
RevisedObject == narration

\* Variant: a reference the chain returned is kept unless it is empty.
AssignReference_if_empty(result, beat_reference) ==
    IF result.beat_reference = ""
    THEN [result EXCEPT !.beat_reference = beat_reference]
    ELSE result

\* narration.beat_reference = beat_reference, on the object the chain returned.
AssignReference(result, beat_reference) ==
    [result EXCEPT !.beat_reference = beat_reference]

\* Variant: the revised text is taken only when conflicts were reported.
AssignRevised_only_on_conflict(unit, eval_result) ==
    IF Len(eval_result.conflicts_found) = 0 THEN unit
    ELSE [unit EXCEPT !.narrative_text = eval_result.revised_narrative]

\* narration.narrative_text = eval_result.revised_narrative
AssignRevised(unit, eval_result) ==
    [unit EXCEPT !.narrative_text = eval_result.revised_narrative]

\* Variant: the unit is inserted at the head of the list.
AppendNarration_at_head(list, id) == <<id>> \o list

\* all_narrations.append(narration)
AppendNarration(list, id) == Append(list, id)

\* Variant: the outer loop ends at the first plot event without beats.
RECURSIVE NextEventWithBeats_stop_at_empty(_, _)
NextEventWithBeats_stop_at_empty(events, e) ==
    IF e >= Len(events) THEN Len(events)
    ELSE IF Len(events[e + 1].beats) > 0 THEN e
    ELSE Len(events)

\* The first index e' >= e of a plot event that has a beat; Len(events) if none:
\* the outer loop steps over an event whose inner loop has nothing to enumerate.
RECURSIVE NextEventWithBeats(_, _)
NextEventWithBeats(events, e) ==
    IF e >= Len(events) THEN Len(events)
    ELSE IF Len(events[e + 1].beats) > 0 THEN e
    ELSE NextEventWithBeats(events, e + 1)

\* Variant: the inner loop is left after one beat.
NextPosition_break(events, e, b) ==
    LET n == NextEventWithBeats(events, e + 1)
    IN  IF n < Len(events) THEN <<FALSE, n, 0>>
        ELSE <<TRUE, Len(events) - 1, b>>

\* Where the two for loops go after the beat at (e, b): <<exhausted, e', b'>>.
NextPosition(events, e, b) ==
    IF b + 1 < Len(events[e + 1].beats) THEN <<FALSE, e, b + 1>>
    ELSE LET n == NextEventWithBeats(events, e + 1)
         IN  IF n < Len(events) THEN <<FALSE, n, 0>>
             ELSE <<TRUE, Len(events) - 1, b>>

NoStory == [returned |-> FALSE, narrations |-> <<>>]

CallEntry(op, it, ok) ==
    [op |-> op, event |-> event_idx, beat |-> beat_idx, iteration |-> it,
     ok |-> ok]

Init ==
    /\ input_data \in NarratorInputs
    /\ objects = <<>>
    /\ all_narrations = <<>>
    /\ narration = 0
    /\ LET events == input_data.story_architecture.plot_events
           n == NextEventWithBeats(events, 0)
       IN  IF n < Len(events)
           THEN event_idx = n /\ pc = "generate"
           ELSE /\ event_idx = (IF Len(events) > 0 THEN Len(events) - 1 ELSE 0)
                /\ pc = "return"
    /\ beat_idx = 0
    /\ iteration = 0
    /\ narrated_story = NoStory
    /\ calls = <<>>
    /\ beat_calls = <<>>
    /\ finals = <<>>
    /\ OutsideNarratorIdle

\* Variant: the roster is narrowed in place to the characters of the beat.
GenerateReturns_narrows_roster ==
    /\ pc = "generate"
    /\ \E result \in GenerationResults :
          /\ objects' = Append(objects,
                 AssignReference(result, BeatReference(event_idx, beat_idx)))
          /\ beat_calls' = << [op |-> "generate", iteration |-> 1,
                               event |-> event_idx, beat |-> beat_idx,
                               context |-> generation_context, ok |-> TRUE,
                               result |-> result] >>
    /\ input_data' =
          [input_data EXCEPT !.characters =
              LET Involved(c) == c.name \in Range(beat.characters_involved)
              IN  SelectSeq(input_data.characters, Involved)]
    /\ narration' = Len(objects) + 1
    /\ iteration' = RangeStart
    /\ pc' = IF RangeStart < RangeStop THEN "evaluate" ELSE "commit"
    /\ calls' = Append(calls, CallEntry("generate", 1, TRUE))
    /\ UNCHANGED <<all_narrations, event_idx, beat_idx, narrated_story, finals>>
    /\ UNCHANGED outside_narrator

(***************************************************************************)
(* Iteration 1: narration = generation_chain.invoke(generation_context),   *)
(* then narration.beat_reference = beat_reference.  The chain returns a    *)
(* new object, or raises and generate_narration is left by the exception.  *)
(***************************************************************************)
GenerateReturns ==
    /\ pc = "generate"
    /\ \E result \in GenerationResults :
          /\ objects' = Append(objects,
                 AssignReference(result, BeatReference(event_idx, beat_idx)))
          /\ beat_calls' = << [op |-> "generate", iteration |-> 1,
                               event |-> event_idx, beat |-> beat_idx,
                               context |-> generation_context, ok |-> TRUE,
                               result |-> result] >>
    /\ narration' = Len(objects) + 1
    /\ iteration' = RangeStart
    /\ pc' = IF RangeStart < RangeStop THEN "evaluate" ELSE "commit"
    /\ calls' = Append(calls, CallEntry("generate", 1, TRUE))
    /\ UNCHANGED <<input_data, all_narrations, event_idx, beat_idx,
                   narrated_story, finals>>
    /\ UNCHANGED outside_narrator

\* Variant: the call is issued again after it raised.
GenerateRaises_retries ==
    /\ pc = "generate"
    /\ pc' = "generate"
    /\ calls' = Append(calls, CallEntry("generate", 1, FALSE))
    /\ beat_calls' = << [op |-> "generate", iteration |-> 1,
                         event |-> event_idx, beat |-> beat_idx,
                         context |-> generation_context, ok |-> FALSE,
                         result |-> [narrative_text |-> "",
                                     beat_reference |-> ""]] >>
    /\ UNCHANGED <<input_data, objects, all_narrations, narration, event_idx,
                   beat_idx, iteration, narrated_story, finals>>
    /\ UNCHANGED outside_narrator

\* The call raises: nothing is bound, the log keeps the context that was sent
\* (the result field of a call that raised is a placeholder, never read).
GenerateRaises ==
    /\ pc = "generate"
    /\ pc' = "raised"
    /\ calls' = Append(calls, CallEntry("generate", 1, FALSE))
    /\ beat_calls' = << [op |-> "generate", iteration |-> 1,
                         event |-> event_idx, beat |-> beat_idx,
                         context |-> generation_context, ok |-> FALSE,
                         result |-> [narrative_text |-> "",
                                     beat_reference |-> ""]] >>
    /\ UNCHANGED <<input_data, objects, all_narrations, narration, event_idx,
                   beat_idx, iteration, narrated_story, finals>>
    /\ UNCHANGED outside_narrator

(***************************************************************************)
(* Iterations 2 and 3: eval_result = evaluation_chain.invoke(eval_context) *)
(* and narration.narrative_text = eval_result.revised_narrative.           *)
(***************************************************************************)
EvaluateReturns ==
    /\ pc = "evaluate"
    /\ \E eval_result \in EvaluationResults :
          /\ objects' = [objects EXCEPT
                 ![RevisedObject] =
                     AssignRevised(objects[RevisedObject], eval_result)]
          /\ beat_calls' = Append(beat_calls,
                 [op |-> "evaluate", iteration |-> iteration,
                  event |-> event_idx, beat |-> beat_idx,
                  context |-> eval_context, ok |-> TRUE,
                  result |-> eval_result])
          /\ finals' = IF MoreRounds(iteration, eval_result) THEN finals
                       ELSE Append(finals, eval_result.revised_narrative)
          /\ pc' = IF MoreRounds(iteration, eval_result)
                   THEN "evaluate" ELSE "commit"
    /\ iteration' = iteration + 1
    /\ calls' = Append(calls, CallEntry("evaluate", iteration, TRUE))
    /\ UNCHANGED <<input_data, all_narrations, narration, event_idx, beat_idx,
                   narrated_story>>
    /\ UNCHANGED outside_narrator

\* Variant: the unit in hand is appended when the evaluation raises.
EvaluateRaises_commits ==
    /\ pc = "evaluate"
    /\ pc' = "raised"
    /\ all_narrations' = Append(all_narrations, narration)
    /\ calls' = Append(calls, CallEntry("evaluate", iteration, FALSE))
    /\ beat_calls' = Append(beat_calls,
           [op |-> "evaluate", iteration |-> iteration,
            event |-> event_idx, beat |-> beat_idx,
            context |-> eval_context, ok |-> FALSE,
            result |-> [conflicts_found |-> <<>>, revised_narrative |-> ""]])
    /\ UNCHANGED <<input_data, objects, narration, event_idx, beat_idx,
                   iteration, narrated_story, finals>>
    /\ UNCHANGED outside_narrator

EvaluateRaises ==
    /\ pc = "evaluate"
    /\ pc' = "raised"
    /\ calls' = Append(calls, CallEntry("evaluate", iteration, FALSE))
    /\ beat_calls' = Append(beat_calls,
           [op |-> "evaluate", iteration |-> iteration,
            event |-> event_idx, beat |-> beat_idx,
            context |-> eval_context, ok |-> FALSE,
            result |-> [conflicts_found |-> <<>>, revised_narrative |-> ""]])
    /\ UNCHANGED <<input_data, objects, all_narrations, narration, event_idx,
                   beat_idx, iteration, narrated_story, finals>>
    /\ UNCHANGED outside_narrator

(***************************************************************************)
(* all_narrations.append(narration), and the loops move to the next beat.  *)
(***************************************************************************)
Commit ==
    /\ pc = "commit"
    /\ all_narrations' = AppendNarration(all_narrations, narration)
    /\ calls' = Append(calls, CallEntry("commit", 0, TRUE))
    /\ LET next == NextPosition(plot_events, event_idx, beat_idx)
       IN  /\ pc' = IF next[1] THEN "return" ELSE "generate"
           /\ event_idx' = next[2]
           /\ beat_idx' = next[3]
    /\ UNCHANGED <<input_data, objects, narration, iteration, narrated_story,
                   beat_calls, finals>>
    /\ UNCHANGED outside_narrator

(***************************************************************************)
(* return NarratedStory(narrations=all_narrations)                         *)
(***************************************************************************)
Return ==
    /\ pc = "return"
    /\ narrated_story' = [returned |-> TRUE,
                          narrations |-> Deref(all_narrations)]
    /\ pc' = "done"
    /\ UNCHANGED <<input_data, objects, all_narrations, narration, event_idx,
                   beat_idx, iteration, calls, beat_calls, finals>>
    /\ UNCHANGED outside_narrator

Next ==
    \/ GenerateReturns
    \/ GenerateRaises
    \/ EvaluateReturns
    \/ EvaluateRaises
    \/ Commit
    \/ Return

Spec == Init /\ [][Next]_vars

(***************************************************************************)
(* The runs in which every call of a chain returns.  generate_narration is *)
(* one sequential function: as long as a step is left to take, it is       *)
(* taken.                                                                  *)
(***************************************************************************)
NextAllReturn ==
    \/ GenerateReturns
    \/ EvaluateReturns
    \/ Commit
    \/ Return

SpecAllReturn == Init /\ [][NextAllReturn]_vars /\ WF_vars(NextAllReturn)

(***************************************************************************)
(* The generation step on its own, for the roster formatter: one plot      *)
(* event with one beat, the beat listing any names in any order (roster    *)
(* members, repeated names, names the roster does not hold), the roster    *)
(* holding any of the sample profiles in any order.                        *)
(***************************************************************************)
CastNames == {"Elijah", "Jasper", "Riley", "Stranger"}

CastsUpTo == UNION {[1..n -> CastNames] : n \in 0..MaxCast}

Rosters ==
    LET Picks == {ix \in UNION {[1..n -> 1..Len(Roster)] : n \in 0..Len(Roster)} :
                     \A i, j \in 1..Len(ix) : i # j => ix[i] # ix[j]}
    IN  {[i \in 1..Len(ix) |-> Roster[ix[i]]] : ix \in Picks}

InvolvedInputs ==
    {[story_architecture |->
         [plot_events |->
             << [title |-> "title 1", summary |-> "summary 1",
                 beats |-> << [description |-> "beat 1.1",
                               beat_type |-> "conversation",
                               characters_involved |-> cast] >>] >>],
      characters |-> roster,
      tone |-> Tone] : cast \in CastsUpTo, roster \in Rosters}

InitInvolved ==
    /\ input_data \in InvolvedInputs
    /\ objects = <<>>
    /\ all_narrations = <<>>
    /\ narration = 0
    /\ event_idx = 0
    /\ beat_idx = 0
    /\ pc = "generate"
    /\ iteration = 0
    /\ narrated_story = NoStory
    /\ calls = <<>>
    /\ beat_calls = <<>>
    /\ finals = <<>>
    /\ OutsideNarratorIdle

NextGenerate ==
    \/ GenerateReturns
    \/ GenerateRaises

SpecInvolved == InitInvolved /\ [][NextGenerate]_vars

(***************************************************************************)
(* src/src/agents/first.py.  The module body sets _agent = None; get_agent *)
(* creates the agent when _agent is None and returns _agent.  create_agent *)
(* is a library call: it returns a new agent or raises, and when it raises *)
(* the assignment of line 12 does not happen.  A module is imported once;  *)
(* src/src/config.py may be imported before or after agents.first, or not  *)
(* at all.                                                                 *)
(***************************************************************************)
Imported(module) == \E i \in 1..Len(sys_modules) : sys_modules[i] = module

\* One entry of the history of get_agent calls.
GetAgentCall(created, raised, result) ==
    [created |-> created, raised |-> raised, result |-> result,
     modules |-> sys_modules]

\* Nothing is imported yet.
InitFirst ==
    /\ _agent = 0
    /\ sys_modules = <<>>
    /\ create_agent_calls = 0
    /\ get_agent_calls = <<>>
    /\ OutsideFirstIdle

ImportAgentsFirst ==
    /\ ~Imported("agents.first")
    /\ sys_modules' = Append(sys_modules, "agents.first")
    /\ _agent' = 0
    /\ UNCHANGED <<create_agent_calls, get_agent_calls>>
    /\ UNCHANGED outside_first

ImportConfig ==
    /\ ~Imported("config")
    /\ sys_modules' = Append(sys_modules, "config")
    /\ UNCHANGED <<_agent, create_agent_calls, get_agent_calls>>
    /\ UNCHANGED outside_first

\* Variant: the agent is created on every call.
GetAgentReturns_always_creates ==
    /\ Imported("agents.first")
    /\ Len(get_agent_calls) < MaxGetAgentCalls
    /\ _agent' = create_agent_calls + 1
    /\ create_agent_calls' = create_agent_calls + 1
    /\ get_agent_calls' =
          Append(get_agent_calls,
                 GetAgentCall(TRUE, FALSE, create_agent_calls + 1))
    /\ UNCHANGED sys_modules
    /\ UNCHANGED outside_first

\* get_agent returns: _agent as it is, or as create_agent has just made it.
GetAgentReturns ==
    /\ Imported("agents.first")
    /\ Len(get_agent_calls) < MaxGetAgentCalls
    /\ IF _agent = 0
       THEN /\ _agent' = create_agent_calls + 1
            /\ create_agent_calls' = create_agent_calls + 1
            /\ get_agent_calls' =
                  Append(get_agent_calls,
                         GetAgentCall(TRUE, FALSE, create_agent_calls + 1))
       ELSE /\ get_agent_calls' =
                  Append(get_agent_calls, GetAgentCall(FALSE, FALSE, _agent))
            /\ UNCHANGED <<_agent, create_agent_calls>>
    /\ UNCHANGED sys_modules
    /\ UNCHANGED outside_first

\* create_agent raises and get_agent is left by the exception.
GetAgentRaises ==
    /\ Imported("agents.first")
    /\ Len(get_agent_calls) < MaxGetAgentCalls
    /\ _agent = 0
    /\ create_agent_calls' = create_agent_calls + 1
    /\ get_agent_calls' =
          Append(get_agent_calls, GetAgentCall(TRUE, TRUE, 0))
    /\ UNCHANGED <<_agent, sys_modules>>
    /\ UNCHANGED outside_first

NextFirst ==
    \/ ImportAgentsFirst
    \/ ImportConfig
    \/ GetAgentReturns
    \/ GetAgentRaises

SpecFirst == InitFirst /\ [][NextFirst]_vars

(***************************************************************************)
(* src/src/graph: the story generation graph.  A node is a function from   *)
(* the graph state to a state update; the graph merges the update into the *)
(* state (edited_narrations through its reducer operator.add, every other  *)
(* key by replacement) and follows the edges of workflow.py.  An optional  *)
(* value is a sequence: <<>> is None, <<v>> is the value v.                *)
(*                                                                         *)
(* The architect, the narrator and the editor are the agents the entry     *)
(* points name; the names of story_input are taken to be registered.  An   *)
(* agent is deterministic: agents fixes, for the run, what the architect   *)
(* and the narrator return (<<>>: the call raises) and what the editor     *)
(* returns for each text.  A StoryArchitecture is not looked into by any   *)
(* node and is a token here; Json is its serialisation.                    *)
(***************************************************************************)
None == <<>>

Some(v) == <<v>>

IsNone(o) == Len(o) = 0

Architectures == {"architecture A"}

Json(architecture) == "{json of " \o architecture \o "}"

NarrativeTexts == {"prose A", "prose B"}

EditedTexts == {"plain A", "plain B"}

\* The stories a narrator can return: any list of up to MaxNarrations units.
NarratedStories ==
    {[narrations |->
         [k \in 1..Len(texts) |->
             [narrative_text |-> texts[k],
              beat_reference |-> "Event 1, Beat " \o NumStr(k)]]] :
       texts \in UNION {[1..n -> NarrativeTexts] : n \in 0..MaxNarrations}}

Agents ==
    [architect : {None} \cup {Some(a) : a \in Architectures},
     narrator : {None} \cup {Some(s) : s \in NarratedStories},
     editor : [NarrativeTexts -> {None} \cup {Some(t) : t \in EditedTexts}]]

AvailableTools == {"dice"}

StoryInputs ==
    {[story_idea |-> "two friends and a stranger",
      characters |-> Roster,
      num_plot_events |-> 1,
      beats_per_event |-> <<1, 2>>,
      tone |-> Tone,
      output_file |-> "story",
      architect |-> "default",
      narrator |-> "default",
      tools |-> tools] : tools \in {None, Some(<<"dice", "lantern">>)}}

\* ToolRegistry(tool_names): the named tools that are available are loaded.
ToolRegistry(tool_names) ==
    [_tools |-> {name \in Range(tool_names) : name \in AvailableTools}]

\* ToolRegistry(story_input.tools) if story_input.tools else None
MakeToolRegistry(tools) ==
    IF ~IsNone(tools) /\ Len(tools[1]) > 0
    THEN Some(ToolRegistry(tools[1]))
    ELSE None

ArchitectInput(story_input) ==
    [story_idea |-> story_input.story_idea,
     characters |-> story_input.characters,
     num_plot_events |-> story_input.num_plot_events,
     beats_per_event |-> story_input.beats_per_event,
     tone |-> story_input.tone]

NarratorInput(architecture, story_input) ==
    [story_architecture |-> architecture,
     characters |-> story_input.characters,
     tone |-> story_input.tone]

EditorInput(text) == [text |-> text]

\* One agent call, as the histories keep it.
AgentCall(agent, input, tool_registry) ==
    [agent |-> agent, input |-> input, tools |-> tool_registry]

\* What a node execution does: it raises or returns an update, after the
\* agent calls and the file writes listed.
Returns(update, agent_calls, writes) ==
    [raised |-> FALSE, update |-> update, calls |-> agent_calls,
     writes |-> writes]

Raises(agent_calls) ==
    [raised |-> TRUE, update |-> <<>>, calls |-> agent_calls, writes |-> <<>>]

FileWrite(path, text) == [path |-> path, text |-> text]

load_input_node(st) ==
    Returns([tool_registry |-> MakeToolRegistry(st.story_input.tools)],
            <<>>, <<>>)

architect_node(st) ==
    LET call == AgentCall("architect", ArchitectInput(st.story_input),
                          st.tool_registry)
    IN  IF IsNone(agents.architect) THEN Raises(<<call>>)
        ELSE Returns([architecture |-> agents.architect], <<call>>, <<>>)

\* Variant: the file is written whatever the flag says.
save_architecture_node_always_writes(st) ==
    IF IsNone(st.architecture) THEN Raises(<<>>)
    ELSE Returns([architecture_saved |-> TRUE], <<>>,
                 << FileWrite(st.output_dir \o "/" \o st.story_input.output_file
                                 \o "_architecture.json",
                              Json(st.architecture[1])) >>)

\* With no architecture in the state, architecture.model_dump_json raises.
save_architecture_node(st) ==
    IF st.architecture_saved THEN Returns(<<>>, <<>>, <<>>)
    ELSE IF IsNone(st.architecture) THEN Raises(<<>>)
    ELSE Returns([architecture_saved |-> TRUE], <<>>,
                 << FileWrite(st.output_dir \o "/" \o st.story_input.output_file
                                 \o "_architecture.json",
                              Json(st.architecture[1])) >>)

\* With no architecture in the state, NarratorInput(...) fails validation.
narrator_node(st) ==
    IF IsNone(st.architecture) THEN Raises(<<>>)
    ELSE LET call == AgentCall("narrator",
                               NarratorInput(st.architecture[1], st.story_input),
                               st.tool_registry)
         IN  IF IsNone(agents.narrator) THEN Raises(<<call>>)
             ELSE Returns([narrated_story |-> agents.narrator], <<call>>, <<>>)

\* narrations[current_index] raises when there is no story in the state or the
\* index is not one of the list.
editor_node(st) ==
    IF IsNone(st.narrated_story) THEN Raises(<<>>)
    ELSE LET narrations == st.narrated_story[1].narrations
             current_index == st.current_narration_index
         IN  IF ~(current_index < Len(narrations)) THEN Raises(<<>>)
             ELSE LET input == EditorInput(
                                 narrations[current_index + 1].narrative_text)
                      call == AgentCall("editor", input, None)
                      edited == agents.editor[input.text]
                  IN  IF IsNone(edited) THEN Raises(<<call>>)
                      ELSE Returns(
                              [edited_narrations |-> <<edited[1]>>,
                               current_narration_index |-> current_index + 1],
                              <<call>>, <<>>)

save_narrative_node(st) ==
    IF st.narrative_saved THEN Returns(<<>>, <<>>, <<>>)
    ELSE Returns([narrative_saved |-> TRUE], <<>>,
                 << FileWrite(st.output_dir \o "/" \o st.story_input.output_file
                                 \o "_narrative.txt",
                              Join("\n\n", st.edited_narrations)) >>)

\* Variant: the loop is left after the first pass.
should_continue_editing_one_pass(st) == "save_narrative"

should_continue_editing(st) ==
    IF st.current_narration_index < Len(st.narrated_story[1].narrations)
    THEN "editor"
    ELSE "save_narrative"

\* Variant: every key of the update replaces the value of the state.
Reduce_replaces(st, update) ==
    [k \in DOMAIN st |-> IF k \in DOMAIN update THEN update[k] ELSE st[k]]

\* The update of a node merged into the state: edited_narrations is
\* Annotated[list[str], operator.add], the other keys are replaced.
Reduce(st, update) ==
    [k \in DOMAIN st |->
        IF k \notin DOMAIN update THEN st[k]
        ELSE IF k = "edited_narrations" THEN st[k] \o update[k]
        ELSE update[k]]

\* The state the caller invokes the graph with.
InitialState(story_input) ==
    [story_input |-> story_input,
     tool_registry |-> None,
     architecture |-> None,
     narrated_story |-> None,
     edited_narrations |-> <<>>,
     current_narration_index |-> 0,
     output_dir |-> "output",
     architecture_saved |-> FALSE,
     narrative_saved |-> FALSE]

\* One node execution: its calls and writes happen, and unless it raised its
\* update is merged into the state.
Execute(name, r) ==
    /\ node_log' = Append(node_log,
                          [node |-> name, raised |-> r.raised,
                           index |-> state.current_narration_index,
                           architecture_saved |-> state.architecture_saved,
                           narrative_saved |-> state.narrative_saved,
                           wrote |-> Len(r.writes) > 0,
                           update |-> r.update])
    /\ graph_calls' = graph_calls \o r.calls
    /\ graph_files' = graph_files \o r.writes
    /\ state' = IF r.raised THEN state ELSE Reduce(state, r.update)

\* add_edge(name, target): target runs next, unless the node raised.
Edge(r, target) == IF r.raised THEN "raised" ELSE target

script_vars == <<script_pc, script_locals, script_files, script_calls>>

InitGraph ==
    /\ agents \in Agents
    /\ \E story_input \in StoryInputs : state = InitialState(story_input)
    /\ node = "load_input"
    /\ node_log = <<>>
    /\ graph_files = <<>>
    /\ graph_calls = <<>>
    /\ script_pc = "idle"
    /\ script_locals = <<>>
    /\ script_files = <<>>
    /\ script_calls = <<>>
    /\ OutsideWorkflowIdle

LoadInput ==
    /\ node = "load_input"
    /\ Execute("load_input", load_input_node(state))
    /\ node' = Edge(load_input_node(state), "architect")
    /\ UNCHANGED <<agents, script_vars>>
    /\ UNCHANGED outside_workflow

Architect ==
    /\ node = "architect"
    /\ Execute("architect", architect_node(state))
    /\ node' = Edge(architect_node(state), "save_architecture")
    /\ UNCHANGED <<agents, script_vars>>
    /\ UNCHANGED outside_workflow

SaveArchitecture ==
    /\ node = "save_architecture"
    /\ Execute("save_architecture", save_architecture_node(state))
    /\ node' = Edge(save_architecture_node(state), "narrator")
    /\ UNCHANGED <<agents, script_vars>>
    /\ UNCHANGED outside_workflow

Narrator ==
    /\ node = "narrator"
    /\ Execute("narrator", narrator_node(state))
    /\ node' = Edge(narrator_node(state), "editor")
    /\ UNCHANGED <<agents, script_vars>>
    /\ UNCHANGED outside_workflow

\* add_conditional_edges("editor", should_continue_editing, ...)
Editor ==
    /\ node = "editor"
    /\ Execute("editor", editor_node(state))
    /\ node' = Edge(editor_node(state),
                    should_continue_editing(
                        Reduce(state, editor_node(state).update)))
    /\ UNCHANGED <<agents, script_vars>>
    /\ UNCHANGED outside_workflow

SaveNarrative ==
    /\ node = "save_narrative"
    /\ Execute("save_narrative", save_narrative_node(state))
    /\ node' = Edge(save_narrative_node(state), "END")
    /\ UNCHANGED <<agents, script_vars>>
    /\ UNCHANGED outside_workflow

NextGraph ==
    \/ LoadInput
    \/ Architect
    \/ SaveArchitecture
    \/ Narrator
    \/ Editor
    \/ SaveNarrative

SpecGraph == InitGraph /\ [][NextGraph]_vars

(***************************************************************************)
(* The nodes executed in any order and any number of times, as when a run  *)
(* is replayed or the graph is invoked on a state an earlier run left: the *)
(* flags start at either value.  A node is executed only on a state that   *)
(* holds what the nodes before it in the graph put there.                  *)
(***************************************************************************)
Nodes ==
    {"load_input", "architect", "save_architecture", "narrator", "editor",
     "save_narrative"}

NodeFunction(name, st) ==
    CASE name = "load_input" -> load_input_node(st)
      [] name = "architect" -> architect_node(st)
      [] name = "save_architecture" -> save_architecture_node(st)
      [] name = "narrator" -> narrator_node(st)
      [] name = "editor" -> editor_node(st)
      [] name = "save_narrative" -> save_narrative_node(st)

\* What the edges of workflow.py have made sure of when the node runs.
Ready(name, st) ==
    CASE name \in {"save_architecture", "narrator"} -> ~IsNone(st.architecture)
      [] name = "editor" -> ~IsNone(st.narrated_story)
      [] OTHER -> TRUE

\* Agents that return: a story of one narration, the editor's one answer.
NodeAgents ==
    {a \in Agents :
        /\ ~IsNone(a.architect)
        /\ ~IsNone(a.narrator)
        /\ Len(a.narrator[1].narrations) = 1
        /\ \A t \in NarrativeTexts : a.editor[t] = Some("plain A")}

InitNodes ==
    /\ agents \in NodeAgents
    /\ \E story_input \in StoryInputs, saved \in [1..2 -> BOOLEAN] :
          state = [InitialState(story_input) EXCEPT
                      !.architecture_saved = saved[1],
                      !.narrative_saved = saved[2]]
    /\ node = "any"
    /\ node_log = <<>>
    /\ graph_files = <<>>
    /\ graph_calls = <<>>
    /\ script_pc = "idle"
    /\ script_locals = <<>>
    /\ script_files = <<>>
    /\ script_calls = <<>>
    /\ OutsideWorkflowIdle

ExecuteAnyNode ==
    /\ node = "any"
    /\ Len(node_log) < MaxNodeRuns
    /\ \E name \in Nodes :
          /\ Ready(name, state)
          /\ Execute(name, NodeFunction(name, state))
    /\ UNCHANGED <<agents, node, script_vars>>
    /\ UNCHANGED outside_workflow

NextNodes == ExecuteAnyNode

SpecNodes == InitNodes /\ [][NextNodes]_vars

(***************************************************************************)
(* src/src/story_lord.py: run_story_generation, the same pipeline as one   *)
(* function.  It is run on the story input of the graph run, with the same *)
(* agents, once the graph run has ended.                                   *)
(***************************************************************************)
ScriptLocals(story_input) ==
    [story_input |-> story_input,
     tool_registry |-> None,
     architecture |-> None,
     narrated_story |-> None,
     edited_narrations |-> <<>>,
     next_narration |-> 0]

InitBoth ==
    /\ agents \in Agents
    /\ \E story_input \in StoryInputs :
          /\ state = InitialState(story_input)
          /\ script_locals = ScriptLocals(story_input)
    /\ node = "load_input"
    /\ node_log = <<>>
    /\ graph_files = <<>>
    /\ graph_calls = <<>>
    /\ script_pc = "load"
    /\ script_files = <<>>
    /\ script_calls = <<>>
    /\ OutsideWorkflowIdle

graph_vars == <<state, node, node_log, graph_files, graph_calls>>

\* Lines 18-27: the input is read and the tool registry built.
ScriptLoad ==
    /\ script_pc = "load"
    /\ node \in {"END", "raised"}
    /\ script_locals' =
          [script_locals EXCEPT
              !.tool_registry = MakeToolRegistry(script_locals.story_input.tools)]
    /\ script_pc' = "architect"
    /\ UNCHANGED <<agents, graph_vars, script_files, script_calls>>
    /\ UNCHANGED outside_workflow

\* Lines 29-38: architect.generate returns the architecture or raises.
ScriptArchitect ==
    /\ script_pc = "architect"
    /\ script_calls' =
          Append(script_calls,
                 AgentCall("architect", ArchitectInput(script_locals.story_input),
                           script_locals.tool_registry))
    /\ IF IsNone(agents.architect)
       THEN script_pc' = "raised" /\ UNCHANGED script_locals
       ELSE /\ script_locals' =
                  [script_locals EXCEPT !.architecture = agents.architect]
            /\ script_pc' = "save_architecture"
    /\ UNCHANGED <<agents, graph_vars, script_files>>
    /\ UNCHANGED outside_workflow

\* Lines 40-47.
ScriptSaveArchitecture ==
    /\ script_pc = "save_architecture"
    /\ script_files' =
          Append(script_files,
                 FileWrite("output" \o "/" \o script_locals.story_input.output_file
                              \o "_architecture.json",
                           Json(script_locals.architecture[1])))
    /\ script_pc' = "narrator"
    /\ UNCHANGED <<agents, graph_vars, script_locals, script_calls>>
    /\ UNCHANGED outside_workflow

\* Lines 49-61: narrator.generate returns the story or raises; then the for
\* loop of line 62 starts, and ends at once on an empty list.
ScriptNarrator ==
    /\ script_pc = "narrator"
    /\ script_calls' =
          Append(script_calls,
                 AgentCall("narrator",
                           NarratorInput(script_locals.architecture[1],
                                         script_locals.story_input),
                           script_locals.tool_registry))
    /\ IF IsNone(agents.narrator)
       THEN script_pc' = "raised" /\ UNCHANGED script_locals
       ELSE /\ script_locals' =
                  [script_locals EXCEPT !.narrated_story = agents.narrator,
                                        !.edited_narrations = <<>>,
                                        !.next_narration = 0]
            /\ script_pc' = IF Len(agents.narrator[1].narrations) > 0
                            THEN "edit" ELSE "save_narrative"
    /\ UNCHANGED <<agents, graph_vars, script_files>>
    /\ UNCHANGED outside_workflow

\* Lines 62-66: one pass of the loop over narrated_story.narrations.
ScriptEdit ==
    /\ script_pc = "edit"
    /\ LET narrations == script_locals.narrated_story[1].narrations
           input == EditorInput(
                       narrations[script_locals.next_narration + 1].narrative_text)
           edited == agents.editor[input.text]
       IN  /\ script_calls' =
                 Append(script_calls, AgentCall("editor", input, None))
           /\ IF IsNone(edited)
              THEN script_pc' = "raised" /\ UNCHANGED script_locals
              ELSE /\ script_locals' =
                         [script_locals EXCEPT
                             !.edited_narrations = Append(@, edited[1]),
                             !.next_narration = @ + 1]
                   /\ script_pc' =
                         IF script_locals.next_narration + 1 < Len(narrations)
                         THEN "edit" ELSE "save_narrative"
    /\ UNCHANGED <<agents, graph_vars, script_files>>
    /\ UNCHANGED outside_workflow

\* Lines 68-72.
ScriptSaveNarrative ==
    /\ script_pc = "save_narrative"
    /\ script_files' =
          Append(script_files,
                 FileWrite("output" \o "/" \o script_locals.story_input.output_file
                              \o "_narrative.txt",
                           Join("\n\n", script_locals.edited_narrations)))
    /\ script_pc' = "done"
    /\ UNCHANGED <<agents, graph_vars, script_locals, script_calls>>
    /\ UNCHANGED outside_workflow

NextBoth ==
    \/ LoadInput
    \/ Architect
    \/ SaveArchitecture
    \/ Narrator
    \/ Editor
    \/ SaveNarrative
    \/ ScriptLoad
    \/ ScriptArchitect
    \/ ScriptSaveArchitecture
    \/ ScriptNarrator
    \/ ScriptEdit
    \/ ScriptSaveNarrative

SpecBoth == InitBoth /\ [][NextBoth]_vars

(***************************************************************************)
(* src/src/agents/character/registry.py: CharacterRegistry.  An agent is   *)
(* the object create_instance returned: instance tells one such object     *)
(* from another, memory is the CharacterMemory it holds, kept as the       *)
(* optional initial_memory it was created with (what an agent type builds  *)
(* from None is outside this module).                                      *)
(***************************************************************************)
TypeNames == {"default", "mbti"}

CharacterIds == {"riley", "stranger"}

Memories == {"memory A", "memory B"}

\* agent_type.create_instance(character_id=..., initial_memory=memory)
create_instance(instance, character_id, type_name, initial_memory) ==
    [instance |-> instance, character_id |-> character_id,
     type_name |-> type_name, memory |-> initial_memory]

\* self._characters[character_id] = character
Store(characters, character_id, character) ==
    [id \in DOMAIN characters \cup {character_id} |->
        IF id = character_id THEN character ELSE characters[id]]

has_character(character_id) == character_id \in DOMAIN _characters

get_character(character_id) == _characters[character_id]

\* len(registry)
RegistryLen == Cardinality(DOMAIN _characters)

RegistryCall(op, args, raised, result) ==
    [op |-> op, args |-> args, raised |-> raised, result |-> result,
     types |-> _agent_types, before |-> _characters]

\* CharacterRegistry(agent_types): agent_types or {}
InitRegistry ==
    /\ _agent_types \in {{}, {"default"}}
    /\ _characters = <<>>
    /\ agents_created = 0
    /\ registry_call = <<>>
    /\ OutsideRegistryIdle

RegisterAgentType ==
    \E name \in TypeNames :
        /\ _agent_types' = _agent_types \cup {name}
        /\ registry_call' = RegistryCall("register_agent_type", name, "", None)
        /\ UNCHANGED <<_characters, agents_created>>
        /\ UNCHANGED outside_registry

CreateCharacterRaises ==
    \E character_id \in CharacterIds, type_name \in TypeNames,
       memory \in {None} \cup {Some(m) : m \in Memories} :
        /\ type_name \notin _agent_types
        /\ registry_call' =
               RegistryCall("create_character",
                            [character_id |-> character_id,
                             type_name |-> type_name, memory |-> memory],
                            "ValueError", None)
        /\ UNCHANGED <<_agent_types, _characters, agents_created>>
        /\ UNCHANGED outside_registry

\* A create_character that keeps the agent already stored under the id.
CreateCharacterReturns_keeps_earlier ==
    \E character_id \in CharacterIds, type_name \in TypeNames,
       memory \in {None} \cup {Some(m) : m \in Memories} :
        /\ type_name \in _agent_types
        /\ agents_created < MaxAgentsCreated
        /\ LET character == create_instance(agents_created + 1, character_id,
                                            type_name, memory)
           IN  /\ _characters' =
                      IF character_id \in DOMAIN _characters
                      THEN _characters
                      ELSE Store(_characters, character_id, character)
               /\ registry_call' =
                      RegistryCall("create_character",
                                   [character_id |-> character_id,
                                    type_name |-> type_name,
                                    memory |-> memory],
                                   "", Some(character))
        /\ agents_created' = agents_created + 1
        /\ UNCHANGED _agent_types
        /\ UNCHANGED outside_registry

CreateCharacterReturns ==
    \E character_id \in CharacterIds, type_name \in TypeNames,
       memory \in {None} \cup {Some(m) : m \in Memories} :
        /\ type_name \in _agent_types
        /\ agents_created < MaxAgentsCreated
        /\ LET character == create_instance(agents_created + 1, character_id,
                                            type_name, memory)
           IN  /\ _characters' = Store(_characters, character_id, character)
               /\ registry_call' =
                      RegistryCall("create_character",
                                   [character_id |-> character_id,
                                    type_name |-> type_name,
                                    memory |-> memory],
                                   "", Some(character))
        /\ agents_created' = agents_created + 1
        /\ UNCHANGED _agent_types
        /\ UNCHANGED outside_registry

GetCharacterReturns ==
    \E character_id \in CharacterIds :
        /\ character_id \in DOMAIN _characters
        /\ registry_call' = RegistryCall("get_character", character_id, "",
                                         Some(get_character(character_id)))
        /\ UNCHANGED <<_agent_types, _characters, agents_created>>
        /\ UNCHANGED outside_registry

GetCharacterRaises ==
    \E character_id \in CharacterIds :
        /\ character_id \notin DOMAIN _characters
        /\ registry_call' =
               RegistryCall("get_character", character_id, "KeyError", None)
        /\ UNCHANGED <<_agent_types, _characters, agents_created>>
        /\ UNCHANGED outside_registry

\* The mappings restore_memories is called with.
MemoryMappings ==
    UNION {[ids -> Memories] : ids \in SUBSET CharacterIds}

\* for char_id, memory in memories.items(): the ids are distinct, so the
\* order of the loop does not show in the outcome.
Restored(characters, memories) ==
    [id \in DOMAIN characters |->
        IF id \in DOMAIN memories
        THEN [characters[id] EXCEPT !.memory = Some(memories[id])]
        ELSE characters[id]]

\* The ids of log.warning("memory_restore_skipped", character_id=char_id).
Skipped(characters, memories) == DOMAIN memories \ DOMAIN characters

RestoreMemories ==
    \E memories \in MemoryMappings :
        /\ _characters' = Restored(_characters, memories)
        /\ registry_call' =
               RegistryCall("restore_memories", memories, "",
                            Skipped(_characters, memories))
        /\ UNCHANGED <<_agent_types, agents_created>>
        /\ UNCHANGED outside_registry

NextRegistry ==
    \/ RegisterAgentType
    \/ CreateCharacterRaises
    \/ CreateCharacterReturns
    \/ GetCharacterReturns
    \/ GetCharacterRaises
    \/ RestoreMemories

SpecRegistry == InitRegistry /\ [][NextRegistry]_vars

(***************************************************************************)
(* src/src/models.py: CharacterMemory.update_relationship.  A float is     *)
(* finite, counted in quarters (0.25, exact in binary floating point, as   *)
(* are the sums here), or one of nan, inf and -inf; + and the comparisons  *)
(* behind min and max follow IEEE 754 on them.                             *)
(***************************************************************************)
Float(quarters) == [kind |-> "finite", quarters |-> quarters]

NaN == [kind |-> "nan"]

Inf == [kind |-> "inf"]

NegInf == [kind |-> "-inf"]

\* x + y
FloatAdd(x, y) ==
    IF x.kind = "nan" \/ y.kind = "nan" THEN NaN
    ELSE IF x.kind = "finite" /\ y.kind = "finite"
         THEN Float(x.quarters + y.quarters)
    ELSE IF x.kind = "finite" THEN y
    ELSE IF y.kind = "finite" \/ y.kind = x.kind THEN x
    ELSE NaN

\* x < y
FloatLess(x, y) ==
    IF x.kind = "nan" \/ y.kind = "nan" THEN FALSE
    ELSE IF x.kind = "finite" /\ y.kind = "finite" THEN x.quarters < y.quarters
    ELSE IF x.kind = y.kind THEN FALSE
    ELSE x.kind = "-inf" \/ y.kind = "inf"

\* min(a, b) and max(a, b) of Python: the first argument is kept unless the
\* second compares smaller (greater).
PyMin(a, b) == IF FloatLess(b, a) THEN b ELSE a

PyMax(a, b) == IF FloatLess(a, b) THEN b ELSE a

\* A clamp that passes the value first: max(min(x, 1.0), 0.0).
Clamp_value_first(x) == PyMax(PyMin(x, Float(4)), Float(0))

\* max(0.0, min(1.0, x))
Clamp(x) == PyMax(Float(0), PyMin(Float(4), x))

\* RelationshipState(character_name=character_name)
RelationshipState(character_name) ==
    [character_name |-> character_name, sentiment |-> "neutral",
     trust_level |-> Float(2), notes |-> <<>>]

RelationshipNames == {"Riley", "Stranger"}

Sentiments == {None, Some(""), Some("wary")}

TrustDeltas == {Float(t) : t \in {-6, -1, 0, 1, 6}} \cup {NaN, Inf, NegInf}

Notes == {None, Some("met at dusk")}

\* if sentiment: / if note:  (None and "" are both false)
Truthy(optional) == ~IsNone(optional) /\ optional[1] # ""

update_relationship(rels, character_name, sentiment, trust_delta, note) ==
    LET rel == IF character_name \in DOMAIN rels
               THEN rels[character_name]
               ELSE RelationshipState(character_name)
        updated ==
            [rel EXCEPT
                !.sentiment = IF Truthy(sentiment) THEN sentiment[1] ELSE @,
                !.trust_level = Clamp(FloatAdd(@, trust_delta)),
                !.notes = IF Truthy(note) THEN Append(@, note[1]) ELSE @]
    IN  [name \in DOMAIN rels \cup {character_name} |->
            IF name = character_name THEN updated ELSE rels[name]]

\* CharacterMemory()
InitMemory ==
    /\ relationships = <<>>
    /\ memory_call = <<>>
    /\ OutsideMemoryIdle

UpdateRelationship ==
    \E character_name \in RelationshipNames, sentiment \in Sentiments,
       trust_delta \in TrustDeltas, note \in Notes :
        /\ (Truthy(note) /\ character_name \in DOMAIN relationships)
               => Len(relationships[character_name].notes) < MaxNotes
        /\ relationships' =
               update_relationship(relationships, character_name, sentiment,
                                   trust_delta, note)
        /\ memory_call' =
               [character_name |-> character_name, trust_delta |-> trust_delta,
                before |-> relationships]
        /\ UNCHANGED outside_memory

NextMemory == UpdateRelationship

SpecMemory == InitMemory /\ [][NextMemory]_vars

(***************************************************************************)
(* src/src/agents/architect.py, generate_story_architecture, and           *)
(* src/src/agents/architect/architect_default.py, DefaultArchitect.generate:*)
(* the same loop, told apart by architect_input.function.  The chain is    *)
(* external: each invoke returns some PlotEvent or raises.                 *)
(***************************************************************************)
ArchitectFunctions == {"generate_story_architecture", "DefaultArchitect.generate"}

\* num_plot_events: int, no validator.
ArchitectInputs ==
    [function : ArchitectFunctions,
     story_idea : {"two friends play a game"},
     characters : {<<>>, Roster},
     num_plot_events : -1..MaxPlotEvents,
     beats_per_event : {<<1, 2>>, <<2, 3>>},
     tone : {Tone}]

\* The PlotEvents with_structured_output(PlotEvent) can hand back.
ChainEvents == {MakeEvent(1, 2), MakeEvent(2, 0)}

ProfileLines(char) ==
    << "### " \o char.name \o " (" \o char.role \o ")",
       "**Description:** " \o char.description,
       "**Motivations:** " \o char.motivations,
       "**Relationships:** " \o char.relationships,
       "**Backstory:** " \o char.backstory,
       "" >>

_format_characters(characters) ==
    Join("\n", Flatten([i \in 1..Len(characters) |->
                           ProfileLines(characters[i])]))

PreviousEventLines(i, event) ==
    << "### Event " \o NumStr(i) \o ": " \o event.title,
       event.summary,
       "\nBeats:" >>
    \o BeatLines(event.beats) \o << "" >>

\* Variant: enumerate(events) without the start 1.
_format_previous_events_from_zero(events) ==
    IF Len(events) = 0
    THEN "**Previous Plot Events:** None (this is the first event)"
    ELSE Join("\n", << "**Previous Plot Events:**\n" >>
                    \o Flatten([i \in 1..Len(events) |->
                                   PreviousEventLines(i - 1, events[i])]))

_format_previous_events(events) ==
    IF Len(events) = 0
    THEN "**Previous Plot Events:** None (this is the first event)"
    ELSE Join("\n", << "**Previous Plot Events:**\n" >>
                    \o Flatten([i \in 1..Len(events) |->
                                   PreviousEventLines(i, events[i])]))

\* The dict passed to chain.invoke in iteration i of range(num_plot_events).
ChainArguments ==
    [story_idea |-> architect_input.story_idea,
     tone |-> architect_input.tone,
     characters_text |-> _format_characters(architect_input.characters),
     current_event |-> architect_i + 1,
     total_events |-> architect_input.num_plot_events,
     min_beats |-> architect_input.beats_per_event[1],
     max_beats |-> architect_input.beats_per_event[2],
     previous_events_section |-> _format_previous_events(architect_plot_events)]

\* The function has been entered: plot_events = [], the loop not yet begun.
InitArchitect ==
    /\ architect_input \in ArchitectInputs
    /\ architect_plot_events = <<>>
    /\ architect_i = 0
    /\ architect_pc = "loop"
    /\ architect_calls = <<>>
    /\ architect_result = None
    /\ OutsideArchitectIdle

\* One iteration: chain.invoke returns result, plot_events.append(result).
PlotEventGenerated ==
    \E result \in ChainEvents :
        /\ architect_pc = "loop"
        /\ architect_i < architect_input.num_plot_events
        /\ architect_calls' =
               Append(architect_calls,
                      [arguments |-> ChainArguments, returned |-> Some(result)])
        /\ architect_plot_events' = Append(architect_plot_events, result)
        /\ architect_i' = architect_i + 1
        /\ UNCHANGED <<architect_input, architect_pc, architect_result>>
        /\ UNCHANGED outside_architect

\* chain.invoke raises: the exception leaves the function.
ChainInvokeRaises ==
    /\ architect_pc = "loop"
    /\ architect_i < architect_input.num_plot_events
    /\ architect_calls' =
           Append(architect_calls,
                  [arguments |-> ChainArguments, returned |-> None])
    /\ architect_pc' = "raised"
    /\ UNCHANGED <<architect_input, architect_plot_events, architect_i,
                   architect_result>>
    /\ UNCHANGED outside_architect

\* range(num_plot_events) is exhausted: return StoryArchitecture(plot_events).
ArchitectureReturned ==
    /\ architect_pc = "loop"
    /\ ~(architect_i < architect_input.num_plot_events)
    /\ architect_result' = Some([plot_events |-> architect_plot_events])
    /\ architect_pc' = "returned"
    /\ UNCHANGED <<architect_input, architect_plot_events, architect_i,
                   architect_calls>>
    /\ UNCHANGED outside_architect

NextArchitect ==
    \/ PlotEventGenerated
    \/ ChainInvokeRaises
    \/ ArchitectureReturned

SpecArchitect == InitArchitect /\ [][NextArchitect]_vars

(***************************************************************************)
(* Vocabulary of the properties.                                           *)
(***************************************************************************)
\* The committed units, as values, in list order.
Corpus == Deref(all_narrations)

\* The beats of the architecture in document order, as 1-based <<event, beat>>.
DocOrder ==
    Flatten([e \in 1..Len(plot_events) |->
                [b \in 1..Len(plot_events[e].beats) |-> <<e, b>>]])

\* The 1-based rank in document order of the beat at 0-based (e, b).
BeatOrdinal(e, b) ==
    Sum([i \in 1..e |-> Len(plot_events[i].beats)]) + b + 1

CallOrdinal(c) == BeatOrdinal(c.event, c.beat)

\* The label of the k-th beat of the document, written out from its position.
LabelOf(k) ==
    "Event " \o NumStr(DocOrder[k][1]) \o ", Beat " \o NumStr(DocOrder[k][2])

IsCommit(c) == c.op = "commit"

Commits == SelectSeq(calls, IsCommit)

(***************************************************************************)
(* C1.  When generate_narration has returned, the story holds one entry    *)
(* per beat of the architecture; the k-th entry was committed for the k-th *)
(* beat in document order, carries the text of that beat's last revision,  *)
(* and is labelled "Event i, Beat j" with the 1-based position of the      *)
(* beat's event among all events and of the beat in its event.             *)
(***************************************************************************)
C1_Ordering ==
    pc = "done" =>
        /\ narrated_story.returned
        /\ Len(narrated_story.narrations) = Len(DocOrder)
        /\ Len(Commits) = Len(DocOrder)
        /\ \A k \in 1..Len(DocOrder) :
              /\ <<Commits[k].event + 1, Commits[k].beat + 1>> = DocOrder[k]
              /\ narrated_story.narrations[k].beat_reference = LabelOf(k)
              /\ narrated_story.narrations[k].narrative_text = finals[k]

\* A finished run on two beats that follow an event without beats.
C1_Witness ==
    /\ pc = "done"
    /\ Len(plot_events) = 2
    /\ Len(plot_events[1].beats) = 0
    /\ Len(narrated_story.narrations) = 2
    /\ narrated_story.narrations[2].beat_reference = "Event 2, Beat 2"
    /\ narrated_story.narrations[1].narrative_text
           # narrated_story.narrations[2].narrative_text

(***************************************************************************)
(* C2.  A unit in the corpus never changes: every step of the run leaves   *)
(* each entry the corpus already holds in its place, with the same         *)
(* narrative_text and beat_reference, whatever the chains return.          *)
(***************************************************************************)
C2_CommittedUnitsFrozen ==
    [][\A k \in 1..Len(Corpus) :
          /\ Len(Corpus') >= k
          /\ Corpus'[k] = Corpus[k]]_vars

\* The second beat has been revised to a text other than the first beat's.
C2_Witness ==
    /\ Len(all_narrations) = 1
    /\ pc = "commit"
    /\ CallOrdinal(beat_calls[1]) = 2
    /\ objects[narration].narrative_text # Corpus[1].narrative_text
    /\ beat_calls[1].result.narrative_text = Corpus[1].narrative_text

(***************************************************************************)
(* C3.  Calls go one beat at a time in document order: the Generate call   *)
(* of the k-th beat is the (4(k-1)+1)-th step of the log, directly after   *)
(* the Generate call, the two Revise calls and the commit of beat k-1; and *)
(* no Generate or Revise call follows the commit of its own beat or of a   *)
(* later one.                                                              *)
(***************************************************************************)
C3_OneBeatAtATime ==
    \A i \in 1..Len(calls) :
        LET c == calls[i]
            k == CallOrdinal(c)
        IN  /\ c.op = "generate" =>
                  /\ i = 4 * (k - 1) + 1
                  /\ k > 1 =>
                        /\ calls[i - 4].op = "generate" /\ calls[i - 4].ok
                        /\ calls[i - 3].op = "evaluate" /\ calls[i - 3].ok
                        /\ calls[i - 2].op = "evaluate" /\ calls[i - 2].ok
                        /\ calls[i - 1].op = "commit"
                        /\ \A j \in (i - 4)..(i - 1) :
                              CallOrdinal(calls[j]) = k - 1
            /\ c.op \in {"generate", "evaluate"} =>
                  \A j \in 1..(i - 1) :
                      calls[j].op = "commit" => CallOrdinal(calls[j]) < k

\* The Generate call of the first beat of a second event has been issued.
C3_Witness ==
    /\ Len(calls) = 9
    /\ calls[9].op = "generate"
    /\ calls[9].event = 1
    /\ calls[9].beat = 0
    /\ calls[5].event = 0

(***************************************************************************)
(* C4.  Every committed beat had exactly two evaluation calls, both        *)
(* between its Generate call and its commit, whether or not the first or   *)
(* the second evaluation reported conflicts.                               *)
(***************************************************************************)
C4_TwoEvaluationsPerBeat ==
    /\ \A i \in 1..Len(calls) :
          calls[i].op = "commit" =>
              LET k == CallOrdinal(calls[i])
                  evals == {j \in 1..Len(calls) :
                               /\ calls[j].op = "evaluate"
                               /\ CallOrdinal(calls[j]) = k}
              IN  /\ evals = {i - 2, i - 1}
                  /\ calls[i - 3].op = "generate"
                  /\ CallOrdinal(calls[i - 3]) = k
    /\ pc = "commit" =>
          /\ Len(beat_calls) = 3
          /\ beat_calls[1].op = "generate"
          /\ beat_calls[2].op = "evaluate"
          /\ beat_calls[3].op = "evaluate"

\* A beat was committed although neither evaluation found a conflict.
C4_Witness ==
    /\ Len(calls) > 0
    /\ calls[Len(calls)].op = "commit"
    /\ Len(beat_calls) = 3
    /\ beat_calls[2].result.conflicts_found = <<>>
    /\ beat_calls[3].result.conflicts_found = <<>>

(***************************************************************************)
(* C5.  A step in which a chain raises leaves the corpus as it was, and    *)
(* the corpus then holds exactly the units of the beats before the one in  *)
(* hand: k entries for a failure in beat k+1, each with its beat's label   *)
(* and last revision.                                                      *)
(***************************************************************************)
C5_FailureKeepsCorpus ==
    [][pc' = "raised" =>
          /\ all_narrations' = all_narrations
          /\ Corpus' = Corpus
          /\ Len(Corpus') = BeatOrdinal(event_idx, beat_idx) - 1
          /\ \A k \in 1..Len(Corpus') :
                /\ Corpus'[k].beat_reference = LabelOf(k)
                /\ Corpus'[k].narrative_text = finals[k]]_vars

\* The second evaluation of the second beat raised; one unit is committed.
C5_Witness ==
    /\ pc = "raised"
    /\ Len(all_narrations) = 1
    /\ Len(beat_calls) = 3
    /\ ~beat_calls[3].ok
    /\ objects[narration].narrative_text # Corpus[1].narrative_text

(***************************************************************************)
(* C6.  After a chain has raised with units already committed, the caller  *)
(* of generate_narration holds a result with those units.                  *)
(***************************************************************************)
C6_PartialResultExposed ==
    (pc = "raised" /\ Len(all_narrations) > 0) =>
        /\ narrated_story.returned
        /\ narrated_story.narrations = Corpus

(***************************************************************************)
(* C7.  A step of an evaluation round that returned.                       *)
(***************************************************************************)
RoundReturned ==
    /\ pc = "evaluate"
    /\ pc' \in {"evaluate", "commit"}
    /\ Len(calls') = Len(calls) + 1

LastRound == beat_calls[Len(beat_calls)]

(***************************************************************************)
(* C7, as stated.  A round whose evaluation returned an empty              *)
(* conflicts_found leaves the narrative_text of the unit in hand as it     *)
(* was before the round.                                                   *)
(***************************************************************************)
C7_NoConflictPassthrough ==
    [][(RoundReturned /\ Len(LastRound'.result.conflicts_found) = 0) =>
          objects'[narration].narrative_text
              = objects[narration].narrative_text]_vars

(***************************************************************************)
(* C7, amended.  After every round that returned, the narrative_text of    *)
(* the unit in hand is the revised_narrative of that round, with or        *)
(* without reported conflicts; so after a round without conflicts the text *)
(* is the one before the round exactly when the evaluation returned the    *)
(* text it was sent.                                                       *)
(***************************************************************************)
C7_RevisedTextAlwaysTaken ==
    [][RoundReturned =>
          /\ objects'[narration].narrative_text
                 = LastRound'.result.revised_narrative
          /\ LastRound'.context.current_narrative
                 = objects[narration].narrative_text
          /\ (objects'[narration].narrative_text
                  = objects[narration].narrative_text)
             <=> (LastRound'.result.revised_narrative
                      = LastRound'.context.current_narrative)]_vars

\* A round reported no conflict and yet the text of the unit has changed.
C7_Witness ==
    /\ pc \in {"evaluate", "commit"}
    /\ Len(beat_calls) > 1
    /\ LastRound.ok
    /\ Len(LastRound.result.conflicts_found) = 0
    /\ LastRound.result.revised_narrative # LastRound.context.current_narrative
    /\ objects[narration].narrative_text = LastRound.result.revised_narrative

(***************************************************************************)
(* The text that renders the units of the first k beats of the document:   *)
(* for each, in order, its label between dashes, the text of its last      *)
(* revision and an empty line; the sentinel when k = 0.                    *)
(***************************************************************************)
RECURSIVE RenderedUnits(_)
RenderedUnits(k) ==
    IF k = 0 THEN ""
    ELSE (IF k = 1 THEN "" ELSE RenderedUnits(k - 1) \o "\n")
         \o "--- " \o LabelOf(k) \o " ---\n" \o finals[k] \o "\n"

FinalizedText(k) ==
    IF k = 0
    THEN "No narrative has been written yet. This is the first beat."
    ELSE RenderedUnits(k)

(***************************************************************************)
(* C8.  The prior_narration of the Generate call of the k-th beat renders  *)
(* the units of beats 1..k-1, in order, each with the text its second      *)
(* revision returned, and nothing else.                                    *)
(***************************************************************************)
C8_GenerateSeesFinalizedCorpus ==
    \A i \in 1..Len(beat_calls) :
        beat_calls[i].op = "generate" =>
            beat_calls[i].context.prior_narration
                = FinalizedText(CallOrdinal(beat_calls[i]) - 1)

\* The third beat is generated with the texts of the first two before it.
C8_Witness ==
    /\ pc = "evaluate"
    /\ Len(beat_calls) = 1
    /\ beat_calls[1].ok
    /\ CallOrdinal(beat_calls[1]) = 3
    /\ finals = <<"prose B", "prose A">>
    /\ beat_calls[1].context.prior_narration
           = "--- Event 1, Beat 1 ---\nprose B\n\n--- Event 1, Beat 2 ---\nprose A\n"

(***************************************************************************)
(* C9.  A step changes the corpus only if it is a commit, and then by      *)
(* appending the unit in hand at the end; no call of a chain changes the   *)
(* list or the units it holds.                                             *)
(***************************************************************************)
C9_CorpusChangesOnlyAtCommit ==
    [][(all_narrations' # all_narrations \/ Corpus' # Corpus) =>
          /\ pc = "commit"
          /\ all_narrations' = Append(all_narrations, narration)
          /\ Corpus' = Append(Corpus, objects[narration])]_vars

\* Two units have been committed, the second just now.
C9_Witness ==
    /\ Len(all_narrations) = 2
    /\ calls[Len(calls)].op = "commit"
    /\ Corpus[2] = objects[narration]
    /\ Corpus[1].narrative_text # Corpus[2].narrative_text

(***************************************************************************)
(* C10.  The full_corpus of both evaluation calls of the k-th beat renders *)
(* the units of beats 1..k-1 only: the corpus as it stood before the       *)
(* beat's Generate call, without the unit under revision.                  *)
(***************************************************************************)
C10_EvaluationSeesEarlierUnitsOnly ==
    \A i \in 1..Len(beat_calls) :
        beat_calls[i].op = "evaluate" =>
            /\ beat_calls[i].context.full_corpus
                   = FinalizedText(CallOrdinal(beat_calls[i]) - 1)
            /\ beat_calls[i].context.full_corpus
                   = beat_calls[1].context.prior_narration

\* Both rounds of the second beat saw the first unit alone, though the unit
\* under revision had another text.
C10_Witness ==
    /\ pc = "commit"
    /\ Len(beat_calls) = 3
    /\ CallOrdinal(beat_calls[3]) = 2
    /\ beat_calls[2].context.full_corpus = "--- Event 1, Beat 1 ---\nprose A\n"
    /\ beat_calls[3].context.full_corpus = "--- Event 1, Beat 1 ---\nprose A\n"
    /\ beat_calls[3].context.current_narrative = "prose B"

(***************************************************************************)
(* C11.  Within a beat each step consumes the output of the step before:   *)
(* the first round is sent the text the generation call returned, the      *)
(* second round the revised_narrative of the first, and the unit is        *)
(* committed with the revised_narrative of the second.                     *)
(***************************************************************************)
C11_StepsChained ==
    /\ (Len(beat_calls) >= 2) =>
          beat_calls[2].context.current_narrative
              = beat_calls[1].result.narrative_text
    /\ (Len(beat_calls) >= 3) =>
          beat_calls[3].context.current_narrative
              = beat_calls[2].result.revised_narrative
    /\ (Len(calls) > 0 /\ calls[Len(calls)].op = "commit") =>
          /\ Len(beat_calls) = 3
          /\ Corpus[Len(Corpus)].narrative_text
                 = beat_calls[3].result.revised_narrative

\* A beat was committed whose draft, first revision and last revision differ
\* from step to step.
C11_Witness ==
    /\ Len(calls) > 0
    /\ calls[Len(calls)].op = "commit"
    /\ beat_calls[1].result.narrative_text = "prose A"
    /\ beat_calls[2].result.revised_narrative = "prose B"
    /\ beat_calls[3].context.current_narrative = "prose B"
    /\ beat_calls[3].result.revised_narrative = "prose A"
    /\ Corpus[Len(Corpus)].narrative_text = "prose A"

(***************************************************************************)
(* C12.  The unit in hand and every committed unit carry the label of      *)
(* their beat's position, whatever beat_reference the generation call      *)
(* returned; no evaluation round changes the label.                        *)
(***************************************************************************)
C12_ReferenceAssignedByWalker ==
    /\ [](\A k \in 1..Len(Corpus) : Corpus[k].beat_reference = LabelOf(k))
    /\ []((pc \in {"evaluate", "commit"}) =>
             objects[narration].beat_reference
                 = LabelOf(CallOrdinal(beat_calls[1])))
    /\ [][(pc = "evaluate" /\ narration' = narration) =>
             objects'[narration].beat_reference
                 = objects[narration].beat_reference]_vars

\* The second beat was committed as "Event 1, Beat 2" although the generation
\* call returned it as "Event 1, Beat 1".
C12_Witness ==
    /\ Len(Corpus) = 2
    /\ calls[Len(calls)].op = "commit"
    /\ beat_calls[1].result.beat_reference = "Event 1, Beat 1"
    /\ Corpus[2].beat_reference = "Event 1, Beat 2"

(***************************************************************************)
(* C13.  No two units of the corpus carry the same beat_reference, in any  *)
(* state of a run, an aborted one included.                                *)
(***************************************************************************)
C13_ReferencesUnique ==
    \A i, j \in 1..Len(Corpus) :
        i # j => Corpus[i].beat_reference # Corpus[j].beat_reference

\* A run aborted in its third beat, whose generation call had returned the
\* label of the first beat twice.
C13_Witness ==
    /\ pc = "raised"
    /\ Len(Corpus) = 2
    /\ beat_calls[1].result.beat_reference = "Event 1, Beat 1"
    /\ Len(beat_calls) > 1
    /\ Corpus[1].beat_reference = "Event 1, Beat 1"
    /\ Corpus[2].beat_reference = "Event 1, Beat 2"

(***************************************************************************)
(* C14.  A call that raised is the last step of the run: no call and no    *)
(* commit follows it, and the run is aborted.  No beat has more than one   *)
(* Generate call or more than two Revise calls.                            *)
(***************************************************************************)
C14_NoRetryAfterFailure ==
    /\ \A i \in 1..Len(calls) :
          ~calls[i].ok => (i = Len(calls) /\ pc = "raised")
    /\ (pc = "raised") => (Len(calls) > 0 /\ ~calls[Len(calls)].ok)
    /\ \A k \in 1..Len(DocOrder) :
          /\ Cardinality({i \in 1..Len(calls) :
                 calls[i].op = "generate" /\ CallOrdinal(calls[i]) = k}) <= 1
          /\ Cardinality({i \in 1..Len(calls) :
                 calls[i].op = "evaluate" /\ CallOrdinal(calls[i]) = k}) <= 2

\* The generation call of the second beat raised, after four steps of the first.
C14_Witness ==
    /\ pc = "raised"
    /\ Len(calls) = 5
    /\ calls[5].op = "generate"
    /\ ~calls[5].ok
    /\ ~narrated_story.returned

(***************************************************************************)
(* C15.  When every call returns, the run ends: generate_narration returns *)
(* a story with one unit per beat, every beat committed in document order, *)
(* after one Generate call and two Revise calls per beat and no other      *)
(* step; with no beat at all it returns an empty story without any call.   *)
(***************************************************************************)
CountCalls(op) ==
    Cardinality({i \in 1..Len(calls) : calls[i].op = op /\ calls[i].ok})

C15_WalkTerminates ==
    <>(/\ pc = "done"
       /\ narrated_story.returned
       /\ Len(narrated_story.narrations) = Len(DocOrder)
       /\ \A k \in 1..Len(DocOrder) :
             /\ Len(Commits) >= k
             /\ <<Commits[k].event + 1, Commits[k].beat + 1>> = DocOrder[k]
       /\ CountCalls("generate") = Len(DocOrder)
       /\ CountCalls("evaluate") = 2 * Len(DocOrder)
       /\ Len(calls) = 4 * Len(DocOrder))

\* The run on three beats in two events has returned after twelve steps.
C15_Witness ==
    /\ pc = "done"
    /\ Len(plot_events) = 2
    /\ Len(DocOrder) = 3
    /\ Len(calls) = 12
    /\ Len(narrated_story.narrations) = 3

(***************************************************************************)
(* C16.  No step of generate_narration changes its argument: the plot      *)
(* events with their beats, the character roster and the tone keep the     *)
(* values they had at entry, in the runs that return and in the runs a     *)
(* raising call ends.                                                      *)
(***************************************************************************)
C16_InputNeverModified ==
    [][/\ input_data'.story_architecture = input_data.story_architecture
       /\ input_data'.characters = input_data.characters
       /\ input_data'.tone = input_data.tone]_vars

\* A run ended by a raising call after a beat was committed and another was
\* generated and revised once.
C16_Witness ==
    /\ pc = "raised"
    /\ Len(all_narrations) >= 1
    /\ Len(beat_calls) = 3
    /\ input_data \in NarratorInputs

(***************************************************************************)
(* C17.  _format_prior_narration of the empty list is the "no narrative    *)
(* written yet" text and _format_prior_context at the first beat of the    *)
(* first event is the "beginning of the story" text.  So every call made   *)
(* for a beat before any commit is sent the first text as its narration    *)
(* so far, and no call made once a unit is committed is sent it.           *)
(***************************************************************************)
\* The narration so far, as the call was sent it.
NarrationSent(c) ==
    IF c.op = "generate" THEN c.context.prior_narration
    ELSE c.context.full_corpus

\* The commits made before the calls of the beat in hand: those of other beats.
CommitsBeforeBeat ==
    Cardinality({i \in 1..Len(calls) :
                    /\ calls[i].op = "commit"
                    /\ <<calls[i].event, calls[i].beat>> #
                          <<beat_calls[1].event, beat_calls[1].beat>>})

C17_SentinelsOnEmptyContext ==
    /\ _format_prior_narration(<<>>) =
          "No narrative has been written yet. This is the first beat."
    /\ (Len(plot_events) > 0) =>
          _format_prior_context(<<>>, plot_events[1], 0) =
             "This is the beginning of the story. No prior context."
    /\ \A i \in 1..Len(beat_calls) :
          /\ (NarrationSent(beat_calls[i]) =
                 "No narrative has been written yet. This is the first beat.")
             <=> (CommitsBeforeBeat = 0)
          /\ (beat_calls[i].event = 0 /\ beat_calls[i].beat = 0) =>
                beat_calls[i].context.prior_context =
                   "This is the beginning of the story. No prior context."

\* The first beat processed has had its three calls, nothing is committed.
C17_Witness ==
    /\ pc = "commit"
    /\ all_narrations = <<>>
    /\ Len(beat_calls) = 3
    /\ \A i \in 1..3 :
          NarrationSent(beat_calls[i]) =
             "No narrative has been written yet. This is the first beat."

(***************************************************************************)
(* C18, as stated.  Every call for a beat with index 0 that no beat        *)
(* precedes in the document is sent the "beginning of the story" text as   *)
(* its prior context, also when plot events without beats come before it.  *)
(***************************************************************************)
NoEarlierBeat(c) ==
    \A e \in 1..c.event : Len(plot_events[e].beats) = 0

C18_SentinelWheneverNoEarlierBeat ==
    \A i \in 1..Len(beat_calls) :
       (NoEarlierBeat(beat_calls[i]) /\ beat_calls[i].beat = 0) =>
          beat_calls[i].context.prior_context =
             "This is the beginning of the story. No prior context."

(***************************************************************************)
(* C18, amended.  A call is sent the "beginning of the story" text exactly *)
(* when its beat is beat 0 of the first plot event.  A call for beat 0 of  *)
(* a later event is sent the headings (number, title, summary) of all      *)
(* earlier events, even if none of them has a beat.                        *)
(***************************************************************************)
RECURSIVE EventHeadings(_)
EventHeadings(n) ==
    IF n = 0 THEN ""
    ELSE EventHeadings(n - 1) \o (IF n > 1 THEN "\n" ELSE "")
            \o "### Plot Event " \o NumStr(n) \o ": " \o plot_events[n].title
            \o "\n" \o plot_events[n].summary \o "\n\n"

C18_SentinelOnlyAtFirstEvent ==
    \A i \in 1..Len(beat_calls) :
       LET c == beat_calls[i]
       IN  /\ (c.context.prior_context =
                  "This is the beginning of the story. No prior context.")
              <=> (c.event = 0 /\ c.beat = 0)
           /\ (c.event > 0 /\ c.beat = 0 /\ NoEarlierBeat(c)) =>
                 c.context.prior_context = EventHeadings(c.event)

\* The first beat of the document is in the second plot event, and its three
\* calls were sent the heading of the first event.
C18_Witness ==
    /\ Len(beat_calls) = 3
    /\ beat_calls[1].event = 1
    /\ beat_calls[1].beat = 0
    /\ NoEarlierBeat(beat_calls[1])
    /\ \A i \in 1..3 :
          beat_calls[i].context.prior_context =
             "### Plot Event 1: title 1\nsummary 1\n\n"

(***************************************************************************)
(* C19.  The prior context sent for the beat at (event e, beat b) lists    *)
(* the beats before it in document order and no other: every beat of the   *)
(* events before e, event by event, then the beats of e before b.  The     *)
(* Generate call and the Revise calls of a beat are sent the same context. *)
(***************************************************************************)
RECURSIVE NamesListed(_)
NamesListed(names) ==
    IF Len(names) = 0 THEN "None"
    ELSE IF Len(names) = 1 THEN names[1]
    ELSE names[1] \o ", " \o NamesListed(Tail(names))

\* The first n beats of the e-th plot event (1-based), one line each.
RECURSIVE BeatsListed(_, _)
BeatsListed(e, n) ==
    IF n = 0 THEN ""
    ELSE LET b == plot_events[e].beats[n]
         IN  BeatsListed(e, n - 1)
                \o "- [" \o b.beat_type \o "] " \o b.description
                \o " (Characters: " \o NamesListed(b.characters_involved)
                \o ")\n"

EventListed(e, mark, n) ==
    "### Plot Event " \o NumStr(e) \o mark \o ": " \o plot_events[e].title
       \o "\n" \o plot_events[e].summary \o "\n\n" \o BeatsListed(e, n)

\* The events 1..n with all their beats.
RECURSIVE EventsListed(_)
EventsListed(n) ==
    IF n = 0 THEN ""
    ELSE EventsListed(n - 1) \o (IF n > 1 THEN "\n" ELSE "")
            \o EventListed(n, "", Len(plot_events[n].beats))

\* The context of the beat at 0-based (e, b), written out from the document.
ExpectedPriorContext(e, b) ==
    IF e = 0 /\ b = 0
    THEN "This is the beginning of the story. No prior context."
    ELSE IF b = 0 THEN EventsListed(e)
    ELSE EventsListed(e) \o (IF e > 0 THEN "\n" ELSE "")
            \o EventListed(e + 1, " (Current)", b)

C19_PriorContextListsEarlierBeats ==
    \A i \in 1..Len(beat_calls) :
       /\ beat_calls[i].context.prior_context =
             ExpectedPriorContext(beat_calls[i].event, beat_calls[i].beat)
       /\ beat_calls[i].context.prior_context =
             beat_calls[1].context.prior_context

\* The second beat of the second event has had its three calls: the context
\* lists the beat of the first event and the first beat of the second.
C19_Witness ==
    /\ Len(beat_calls) = 3
    /\ beat_calls[3].event = 1
    /\ beat_calls[3].beat = 1
    /\ Len(plot_events[1].beats) = 1
    /\ beat_calls[3].context.prior_context =
          "### Plot Event 1: title 1\nsummary 1\n\n"
             \o "- [occurrence] beat 1.1 (Characters: None)\n"
             \o "\n### Plot Event 2 (Current): title 2\nsummary 2\n\n"
             \o "- [internal_dialogue] beat 2.1 (Characters: Riley, Stranger)\n"

(***************************************************************************)
(* C20.  The "involved_characters" of a generation context is the          *)
(* rendering of the roster profiles whose name the beat lists, in the      *)
(* order of the roster whatever the order of the beat; a listed name the   *)
(* roster does not hold adds nothing, and when no profile is listed the    *)
(* text is "No specific characters identified for this beat.".             *)
(***************************************************************************)
Listed(name, names) == \E i \in 1..Len(names) : names[i] = name

\* The roster walked in its own order, one block per listed profile.
RECURSIVE ExpectedBlocks(_, _)
ExpectedBlocks(names, roster) ==
    IF Len(roster) = 0 THEN <<>>
    ELSE LET c == roster[1]
         IN  (IF Listed(c.name, names)
              THEN << "### " \o c.name \o " (" \o c.role \o ")\n"
                        \o "**Description:** " \o c.description \o "\n"
                        \o "**Motivations:** " \o c.motivations \o "\n"
                        \o "**Relationships:** " \o c.relationships \o "\n" >>
              ELSE <<>>)
             \o ExpectedBlocks(names, Tail(roster))

ExpectedInvolved(names, roster) ==
    IF \A i \in 1..Len(roster) : ~Listed(roster[i].name, names)
    THEN "No specific characters identified for this beat."
    ELSE Join("\n", ExpectedBlocks(names, roster))

C20_InvolvedInRosterOrder ==
    \A i \in 1..Len(beat_calls) :
       LET c == beat_calls[i]
       IN  (c.op = "generate") =>
              c.context.involved_characters =
                 ExpectedInvolved(
                     plot_events[c.event + 1].beats[c.beat + 1].characters_involved,
                     input_data.characters)

\* The beat lists Jasper before Elijah and the roster holds Elijah before
\* Jasper: the context sent renders Elijah first.
C20_Witness ==
    /\ Len(beat_calls) = 1
    /\ beat.characters_involved = <<"Jasper", "Elijah">>
    /\ input_data.characters = Roster
    /\ beat_calls[1].context.involved_characters =
          "### Elijah (protagonist)\n**Description:** dentist\n"
             \o "**Motivations:** curiosity\n"
             \o "**Relationships:** friend of Jasper\n\n"
             \o "### Jasper (protagonist)\n**Description:** lawyer\n"
             \o "**Motivations:** winning\n"
             \o "**Relationships:** friend of Elijah\n"

(***************************************************************************)
(* C21, as stated.  Importing agents.first creates nothing; the first      *)
(* get_agent call creates the agent and every later call returns that      *)
(* same instance, which is not None; so create_agent is invoked at most    *)
(* once, wherever config is imported.                                      *)
(***************************************************************************)
C21_CreateAgentAtMostOnce ==
    /\ (Len(get_agent_calls) = 0) => (_agent = 0 /\ create_agent_calls = 0)
    /\ create_agent_calls <= 1
    /\ \A i \in 1..Len(get_agent_calls) :
          /\ ~get_agent_calls[i].raised
          /\ get_agent_calls[i].result # 0
          /\ get_agent_calls[i].result = get_agent_calls[1].result

(***************************************************************************)
(* C21, amended.  Importing agents.first creates nothing.  The get_agent   *)
(* calls that return all return the same instance, which is not None, and  *)
(* from the first call that returns on no call invokes create_agent or     *)
(* raises: create_agent returns at most once.  A call in which             *)
(* create_agent raises leaves _agent None, so create_agent is invoked once *)
(* for each such call and once more for the first call that returns,       *)
(* wherever config is imported.                                            *)
(***************************************************************************)
ReturnedCalls == {i \in 1..Len(get_agent_calls) : ~get_agent_calls[i].raised}

C21_CreateAgentReturnsAtMostOnce ==
    /\ (Len(get_agent_calls) = 0) => (_agent = 0 /\ create_agent_calls = 0)
    /\ \A i \in ReturnedCalls :
          /\ get_agent_calls[i].result # 0
          /\ get_agent_calls[i].result = _agent
          /\ \A j \in 1..Len(get_agent_calls) :
                j > i => (j \in ReturnedCalls /\ ~get_agent_calls[j].created)
    /\ create_agent_calls =
          Cardinality({i \in 1..Len(get_agent_calls) : get_agent_calls[i].created})
    /\ create_agent_calls =
          Cardinality({i \in 1..Len(get_agent_calls) : get_agent_calls[i].raised})
             + (IF ReturnedCalls = {} THEN 0 ELSE 1)

\* agents.first was imported before config; a call made before config was
\* imported raised, and the two calls after it returned the one agent.
C21_Witness ==
    /\ sys_modules = <<"agents.first", "config">>
    /\ Len(get_agent_calls) = 3
    /\ get_agent_calls[1].raised
    /\ get_agent_calls[1].modules = <<"agents.first">>
    /\ get_agent_calls[2].created /\ ~get_agent_calls[2].raised
    /\ ~get_agent_calls[3].created
    /\ get_agent_calls[3].result = get_agent_calls[2].result
    /\ create_agent_calls = 2

(***************************************************************************)
(* C22.  When the graph has left the editor loop on a story of M >= 1      *)
(* narrations, editor_node has run M times, current_narration_index is M   *)
(* and edited_narrations holds, in narration order, what the editor        *)
(* returned for the narrative_text of each narration.                      *)
(***************************************************************************)
\* The positions of node_log at which the named node ran.
RunsOf(name) == {i \in 1..Len(node_log) : node_log[i].node = name}

IsEditorCall(c) == c.agent = "editor"

C22_EditorLoopEditsEveryNarration ==
    (node \in {"save_narrative", "END"}
        /\ Len(state.narrated_story[1].narrations) >= 1) =>
       LET narrations == state.narrated_story[1].narrations
           M == Len(narrations)
           editor_calls == SelectSeq(graph_calls, IsEditorCall)
       IN  /\ Cardinality(RunsOf("editor")) = M
           /\ state.current_narration_index = M
           /\ Len(state.edited_narrations) = M
           /\ Len(editor_calls) = M
           /\ \A i \in 1..M :
                 /\ editor_calls[i].input.text = narrations[i].narrative_text
                 /\ state.edited_narrations[i] =
                       agents.editor[narrations[i].narrative_text][1]

\* Two narrations of different texts were edited to different texts.
C22_Witness ==
    /\ node = "END"
    /\ Len(state.narrated_story[1].narrations) = 2
    /\ state.narrated_story[1].narrations[1].narrative_text = "prose B"
    /\ state.narrated_story[1].narrations[2].narrative_text = "prose A"
    /\ state.edited_narrations = <<"plain A", "plain B">>
    /\ state.current_narration_index = 2

(***************************************************************************)
(* C23.  The nodes of a run execute in the order load_input, architect,    *)
(* save_architecture, narrator, editor (repeated), save_narrative, and END *)
(* follows save_narrative: the architecture is written before the narrator *)
(* runs, and save_narrative runs only when current_narration_index is the  *)
(* number of narrations, every narration having been edited.               *)
(***************************************************************************)
NodeRank(name) ==
    CASE name = "load_input" -> 1
      [] name = "architect" -> 2
      [] name = "save_architecture" -> 3
      [] name = "narrator" -> 4
      [] name = "editor" -> 5
      [] name = "save_narrative" -> 6

C23_NodesRunInGraphOrder ==
    /\ (Len(node_log) > 0) => node_log[1].node = "load_input"
    /\ \A i \in 1..Len(node_log) :
          /\ (i < Len(node_log)) =>
                /\ ~node_log[i].raised
                /\ \/ NodeRank(node_log[i + 1].node) = NodeRank(node_log[i].node) + 1
                   \/ node_log[i].node = "editor" /\ node_log[i + 1].node = "editor"
          /\ (node_log[i].node = "narrator") =>
                /\ node_log[i - 1].node = "save_architecture"
                /\ node_log[i - 1].wrote
                /\ Len(graph_files) >= 1
          /\ (node_log[i].node = "save_narrative") =>
                /\ node_log[i].index = Len(state.narrated_story[1].narrations)
                /\ Len(state.edited_narrations) = node_log[i].index
                /\ Cardinality(RunsOf("editor")) = node_log[i].index
    /\ (node = "END") => node_log[Len(node_log)].node = "save_narrative"

\* A run of seven node executions ended: the editor ran twice.
C23_Witness ==
    /\ node = "END"
    /\ Len(node_log) = 7
    /\ node_log[5].node = "editor"
    /\ node_log[6].node = "editor"
    /\ node_log[7].node = "save_narrative"
    /\ node_log[7].index = 2

(***************************************************************************)
(* C24.  save_architecture_node and save_narrative_node are idempotent.    *)
(* Executed with its flag true, the node writes nothing and returns the    *)
(* empty update; executed with its flag false, it writes its file and      *)
(* returns the flag set to true.  No node returns a flag set to false, so  *)
(* a flag that is true stays true, and over any sequence of node           *)
(* executions no file is written twice.                                    *)
(***************************************************************************)
SavedBefore(entry) ==
    IF entry.node = "save_architecture" THEN entry.architecture_saved
    ELSE entry.narrative_saved

SaveUpdate(entry) ==
    IF entry.node = "save_architecture" THEN [architecture_saved |-> TRUE]
    ELSE [narrative_saved |-> TRUE]

C29_EditorIndexValid ==
    (node = "editor") =>
       /\ ~IsNone(state.narrated_story)
       /\ 0 <= state.current_narration_index
       /\ state.current_narration_index < Len(state.narrated_story[1].narrations)

(***************************************************************************)
(* C30, as stated.  On the same story input and with the same              *)
(* deterministic agents, the graph run and run_story_generation make the   *)
(* same agent calls in the same order and end with the same edited         *)
(* narrations and the same files written, the narrative text among them,   *)
(* whatever the number of narrations, zero included.                       *)
(***************************************************************************)
C30_GraphAndScriptAgree ==
    (node \in {"END", "raised"} /\ script_pc \in {"done", "raised"}) =>
       /\ graph_calls = script_calls
       /\ state.edited_narrations = script_locals.edited_narrations
       /\ graph_files = script_files
       /\ (node = "END") <=> (script_pc = "done")

\* A call has been made on the object whose history this is.
Called(call) == DOMAIN call # {}

\* The registry's last call was op and ended as raised ("" for a return).
RegistryDid(op, raised) ==
    /\ Called(registry_call)
    /\ registry_call.op = op
    /\ registry_call.raised = raised

\* C25: restore_memories raises KeyError when the memories mapping holds a
\* character id the registry does not have.
C25_RestoreRaisesOnUnknownId ==
    (/\ Called(registry_call)
     /\ registry_call.op = "restore_memories"
     /\ \E id \in DOMAIN registry_call.args : id \notin DOMAIN registry_call.before)
        => registry_call.raised = "KeyError"

InUnitRange(x) == x.kind = "finite" /\ 0 <= x.quarters /\ x.quarters <= 4

\* The nearest value of [0.0, 1.0] to old + delta; a delta of nan has none
\* and ends at 1.0.
ClampedSum(old, delta) ==
    IF delta.kind = "finite"
    THEN LET q == old.quarters + delta.quarters
         IN  Float(IF q < 0 THEN 0 ELSE IF q > 4 THEN 4 ELSE q)
    ELSE IF delta.kind = "-inf" THEN Float(0) ELSE Float(4)

\* C27: after any sequence of update_relationship calls, with any
\* trust_delta, the trust_level of every relationship lies in [0.0, 1.0]: the
\* call takes the relationship's level, 0.5 when the name is first mentioned,
\* adds trust_delta and clamps the sum; the other relationships keep theirs.
C27_TrustLevelInUnitRange ==
    /\ \A name \in DOMAIN relationships :
           InUnitRange(relationships[name].trust_level)
    /\ Called(memory_call) =>
           LET name == memory_call.character_name
               before == memory_call.before
               old == IF name \in DOMAIN before
                      THEN before[name].trust_level
                      ELSE Float(2)
           IN  /\ name \in DOMAIN relationships
               /\ relationships[name].trust_level =
                      ClampedSum(old, memory_call.trust_delta)
               /\ \A other \in DOMAIN before \ {name} :
                      /\ other \in DOMAIN relationships
                      /\ relationships[other].trust_level =
                             before[other].trust_level

\* A trust_delta of nan has just been applied to a relationship that stood at
\* 0.25, while the other relationship had been driven down to 0.0.
C27_Witness ==
    /\ Called(memory_call)
    /\ memory_call.trust_delta = NaN
    /\ DOMAIN memory_call.before = RelationshipNames
    /\ memory_call.before[memory_call.character_name].trust_level = Float(1)
    /\ \E other \in RelationshipNames \ {memory_call.character_name} :
           relationships[other].trust_level = Float(0)

\* The beats of an event as the previous-events section shows them.
RECURSIVE PreviousBeatsListed(_, _)
PreviousBeatsListed(beats, n) ==
    IF n = 0 THEN ""
    ELSE PreviousBeatsListed(beats, n - 1)
            \o "\n- [" \o beats[n].beat_type \o "] " \o beats[n].description
            \o " (Characters: " \o NamesListed(beats[n].characters_involved)
            \o ")"

\* The first n of the events, numbered from 1, under the section's heading.
RECURSIVE PreviousListed(_, _)
PreviousListed(events, n) ==
    IF n = 0 THEN "**Previous Plot Events:**\n"
    ELSE PreviousListed(events, n - 1)
            \o "\n### Event " \o NumStr(n) \o ": " \o events[n].title
            \o "\n" \o events[n].summary \o "\n\nBeats:"
            \o PreviousBeatsListed(events[n].beats, Len(events[n].beats))
            \o "\n"

\* The section the call for event i (1-based) is to receive.
ExpectedPreviousSection(events, i) ==
    IF i = 1 THEN "**Previous Plot Events:** None (this is the first event)"
    ELSE PreviousListed(events, i - 1)

\* Every chain call so far was the call for the next event in turn and was
\* given the events generated before it.
CallsInGenerationOrder ==
    \A i \in 1..Len(architect_calls) :
        /\ architect_calls[i].arguments.current_event = i
        /\ architect_calls[i].arguments.previous_events_section =
               ExpectedPreviousSection(architect_plot_events, i)

\* The architecture returned holds count events, those the count chain calls
\* returned, in the order of the calls.
ReturnedAfter(count) ==
    /\ Len(architect_result[1].plot_events) = count
    /\ Len(architect_calls) = count
    /\ \A i \in 1..Len(architect_calls) :
           Some(architect_result[1].plot_events[i]) = architect_calls[i].returned

====
